---- MODULE Spec2Model ----
(***************************************************************************)
(* A model of the concurrency core of the cse130 HTTP server:              *)
(*   - the multi-policy reader/writer lock   (asgn3/rwlock.c)              *)
(*   - the bounded blocking queue            (asgn3/queue.c)               *)
(*   - the per-URI lock registry and the worker's request handling         *)
(*     (asgn4/httpserver.c)                                                *)
(* Every pthread / semaphore call of the source is one step of a thread;   *)
(* the plain computation that follows a call under the same mutex is part  *)
(* of that step.                                                           *)
(***************************************************************************)
EXTENDS Integers, Sequences, FiniteSets, TLC

\* ------------------------------------------------------------- bounds
\* threads using the single lock of the lock specification
NumThreads == 3
\* largest N of an N_WAY lock tried in the lock specification
MaxN == 2
\* producers and consumers of the queue specification
NumProducers == 2
NumConsumers == 2
\* queue_push calls made by each producer
MaxItems == 2
\* largest capacity given to queue_new
MaxSize == 2
\* largest thread_count (worker threads = registry slots) of the server specification
NumWorkers == 2
\* connections accepted and queued in a run of the server specification
MaxRequests == 3
\* connections accepted in a run of the whole-server specification
MaxConns == 2
\* largest Content-Length of a PUT, largest number of body bytes the parser has
\* buffered, largest number of further bytes the client sends before it closes
MaxContentLength == 3
MaxBodySize == 4
MaxSocketBytes == 3
\* width of size_t, scaled down
SizeBits == 16

\* ------------------------------------------------------------- constants
NoThread == 0
Priorities == {"READERS", "WRITERS", "N_WAY"}
\* a value of type PRIORITY that is none of the three enumerators
BadPriority == "INVALID"
\* the null handle: rwlock_new returned NULL
NULL == [priority |-> "NULL"]

VARIABLES
    \* --- reader/writer locks (rwlock.c)
    rw,             \* lock id -> struct rwlock (fields of all three policy states)
    pc,             \* thread -> position in the code
    lk,             \* thread -> the rwlock_t* it is operating on
    passed_since,   \* history: writer -> readers admitted since it registered as waiting
    writers_ahead,  \* history: reader -> writers registered when its reader_lock began
                    \*          that have not released the lock yet
    window,         \* history: lock -> readers admitted while writers_waiting > 0 since
                    \*          the last reset of readers_passed (kept for the locks in
                    \*          its domain)
    \* --- bounded queue (queue.c)
    q,              \* struct queue
    qpc,            \* thread -> position in queue_push / queue_pop
    elem,           \* thread -> the element it is pushing / has popped
    sent,           \* producer -> number of queue_push calls it has made
    pushed,         \* history: elements in the order they were written to buf
    popped,         \* history: elements in the order they were read from buf
    \* --- server (httpserver.c)
    file_locks,     \* slot -> [filename, users]; the slot's lock is rw[slot]
    file_locks_mutex, \* owner of file_locks_mutex
    req,            \* worker -> the request it is serving
    response,       \* worker -> the Response of its call of handle_connection
    files,          \* the served directory: URI -> content of the file, NoFile if none
    next_id,        \* connections accepted so far (they are numbered in this order)
    events,         \* history: file accesses of the handlers, audit lines written to
                    \*          stderr and responses written to clients, in order
    main,           \* the main thread and the process-wide state of shutdown
    \* --- one call of handle_put, byte counts (httpserver.c)
    put             \* position, Content-Length, buffered body, bytes the client sends
                    \* after it, bytes taken from the socket, bytes in the file

rwVars == <<rw, pc, lk, passed_since, writers_ahead, window>>
qVars == <<q, qpc, elem, sent, pushed, popped>>
srvVars == <<file_locks, file_locks_mutex, req, response, files, next_id, events>>
mainVars == <<main>>
putVars == <<put>>

vars == <<rwVars, qVars, srvVars, mainVars, putVars>>

Threads == DOMAIN pc
Min(a, b) == IF a < b THEN a ELSE b

\* the parts of the state a specification does not use
QueueUnused ==
    /\ q = << >> /\ qpc = << >> /\ elem = << >> /\ sent = << >>
    /\ pushed = << >> /\ popped = << >>
ServerUnused ==
    /\ file_locks = << >> /\ file_locks_mutex = NoThread /\ req = << >>
    /\ response = << >> /\ files = << >> /\ next_id = 0 /\ events = << >>
LocksUnused ==
    /\ rw = << >> /\ pc = << >> /\ lk = << >>
    /\ passed_since = << >> /\ writers_ahead = << >> /\ window = << >>
MainUnused == main = << >>
PutUnused == put = << >>

\* ------------------------------------------------------------- rwlock.c
\* mutant of rwlock_new: the write gate is created with the value 2
rwlock_new_gate_two(p, n) ==
    [ priority        |-> p,
      n               |-> n,
      readers_holding |-> 0,
      readers_waiting |-> 0,
      readers_passed  |-> 0,
      writers_waiting |-> 0,
      writer_holding  |-> FALSE,
      mutex           |-> NoThread,
      write_lock      |-> 2,
      rd_cond         |-> {},
      wr_cond         |-> {} ]

\* mutant of rwlock_new: N_WAY accepts n = 0
rwlock_new_any_n(p, n) ==
    IF p \notin Priorities THEN NULL
    ELSE
    [ priority        |-> p,
      n               |-> n,
      readers_holding |-> 0,
      readers_waiting |-> 0,
      readers_passed  |-> 0,
      writers_waiting |-> 0,
      writer_holding  |-> FALSE,
      mutex           |-> NoThread,
      write_lock      |-> 1,
      rd_cond         |-> {},
      wr_cond         |-> {} ]

\* rwlock_new: NULL for N_WAY with n = 0 and for a priority outside the enum,
\* else the state a lock is created in (all counters 0, gate = 1)
rwlock_new(p, n) ==
    IF p = "N_WAY" /\ n = 0 THEN NULL
    ELSE IF p \notin Priorities THEN NULL
    ELSE
    [ priority        |-> p,
      n               |-> n,
      readers_holding |-> 0,
      readers_waiting |-> 0,
      readers_passed  |-> 0,
      writers_waiting |-> 0,
      writer_holding  |-> FALSE,
      mutex           |-> NoThread,
      write_lock      |-> 1,
      rd_cond         |-> {},
      wr_cond         |-> {} ]

\* pthread_cond_signal called k times in a row on a condition with waiters S:
\* each call unblocks one waiter if there is one
cond_signal(S, k) ==
    { S \ W : W \in { X \in SUBSET S : Cardinality(X) = Min(k, Cardinality(S)) } }

\* pthread_cond_broadcast: every waiter is unblocked
cond_broadcast(S) == {}

\* the calling thread is inside the region protected by a reader lock
ReaderIn(t) == pc[t] \in {"rd_held", "rd_audit", "call_reader_unlock"}
\* the calling thread is inside the region protected by a writer lock
WriterIn(t) == pc[t] \in {"wr_held", "wr_audit", "call_writer_unlock"}

\* writers that did writers_waiting++ (WRITERS policy) and have not posted the gate yet
WrRegistered(l) ==
    { w \in Threads : lk[w] = l /\
        pc[w] \in {"wl_unlock", "wl_sem", "wr_held", "wr_audit", "call_writer_unlock",
                  "wu_mutex", "wu_post"} }

\* writers that did writers_waiting++ (N_WAY policy) and were not granted the gate yet
NwayWrWaiting(l) ==
    { w \in Threads : lk[w] = l /\ pc[w] \in {"wl_while", "wl_wait", "wl_sem"} }

\* --- entry points (return on a null handle, else dispatch on its priority) -
reader_lock(t) ==
    /\ pc[t] = "call_reader_lock"
    /\ pc' = [pc EXCEPT ![t] = IF rw[lk[t]] = NULL THEN "rd_held" ELSE "rl_mutex"]
    /\ writers_ahead' = [writers_ahead EXCEPT ![t] =
          IF rw[lk[t]].priority = "WRITERS" THEN WrRegistered(lk[t]) ELSE {}]
    /\ UNCHANGED <<qVars, srvVars, mainVars, putVars, rw, lk, passed_since, window>>

reader_unlock(t) ==
    /\ pc[t] = "call_reader_unlock"
    /\ pc' = [pc EXCEPT ![t] = IF rw[lk[t]] = NULL THEN "unlocked" ELSE "ru_mutex"]
    /\ UNCHANGED <<qVars, srvVars, mainVars, putVars, rw, lk, passed_since, writers_ahead, window>>

writer_lock(t) ==
    /\ pc[t] = "call_writer_lock"
    /\ pc' = [pc EXCEPT ![t] = IF rw[lk[t]] = NULL THEN "wr_held" ELSE "wl_mutex"]
    /\ UNCHANGED <<qVars, srvVars, mainVars, putVars, rw, lk, passed_since, writers_ahead, window>>

writer_unlock(t) ==
    /\ pc[t] = "call_writer_unlock"
    /\ pc' = [pc EXCEPT ![t] =
                IF rw[lk[t]] = NULL THEN "unlocked"
                ELSE IF rw[lk[t]].priority = "WRITERS" THEN "wu_mutex" ELSE "wu_post"]
    /\ UNCHANGED <<qVars, srvVars, mainVars, putVars, rw, lk, passed_since, writers_ahead, window>>

\* pthread_cond_wait may return without a signal (POSIX spurious wake-up);
\* every wait of the source sits in a while loop that re-tests its condition
spurious_wakeup(t) ==
    /\ pc[t] \in {"rl_wait", "wl_wait"}
    /\ \/ t \in rw[lk[t]].rd_cond
       \/ t \in rw[lk[t]].wr_cond
    /\ rw' = [rw EXCEPT ![lk[t]].rd_cond = @ \ {t}, ![lk[t]].wr_cond = @ \ {t}]
    /\ UNCHANGED <<qVars, srvVars, mainVars, putVars, pc, lk, passed_since, writers_ahead, window>>

\* --- conditions of the source --------------------------------------------
\* mutants of first_reader: the gate is never taken / taken by every reader
first_reader_never(r) == FALSE
first_reader_always(r) == TRUE
\* `if (!rw->readers_holding)` in the three rd_lock functions: first reader
first_reader(r) == r.readers_holding = 0
\* mutant of last_reader: no leaving reader posts the gate
last_reader_never(r) == FALSE
\* mutant of last_reader: every leaving reader posts the gate
last_reader_any(r) == TRUE
\* `if (!rw->readers_holding)` after the decrement in the rd_unlock functions
last_reader(r) == r.readers_holding = 1
\* while condition of rd_priority_wr_lock
rd_priority_wr_must_wait(r) == r.readers_holding > 0 \/ r.writer_holding
\* mutant of wr_priority_rd_must_wait: off by one, a single writer is ignored
wr_priority_rd_must_wait_gt1(r) == r.writers_waiting > 1
\* while condition of wr_priority_rd_lock
wr_priority_rd_must_wait(r) == r.writers_waiting > 0
\* mutant of nway_priority_rd_must_wait: off by one, the quota is never reached
nway_priority_rd_must_wait_gt(r) == r.readers_passed > r.n /\ r.writers_waiting > 0
\* while condition of nway_priority_rd_lock
nway_priority_rd_must_wait(r) == r.readers_passed >= r.n /\ r.writers_waiting > 0
\* while condition of nway_priority_wr_lock
nway_priority_wr_must_wait(r) ==
    r.readers_holding > 0 \/ (r.readers_passed < r.n /\ r.readers_waiting > 0)

\* --- READERS policy ---------------------------------------------------------
rd_priority_rd_lock_mutex(t) ==
    LET l == lk[t]  r == rw[l] IN
    /\ pc[t] = "rl_mutex" /\ r.priority = "READERS"
    /\ r.mutex = NoThread
    /\ IF first_reader(r)
       THEN /\ rw' = [rw EXCEPT ![l].mutex = t]
            /\ pc' = [pc EXCEPT ![t] = "rl_sem"]
       ELSE /\ rw' = [rw EXCEPT ![l].mutex = t, ![l].readers_holding = @ + 1]
            /\ pc' = [pc EXCEPT ![t] = "rl_unlock"]
    /\ UNCHANGED <<qVars, srvVars, mainVars, putVars, lk, passed_since, writers_ahead, window>>

rd_priority_rd_lock_sem(t) ==
    LET l == lk[t]  r == rw[l] IN
    /\ pc[t] = "rl_sem" /\ r.priority = "READERS"
    /\ r.write_lock > 0
    /\ rw' = [rw EXCEPT ![l].write_lock = @ - 1, ![l].readers_holding = @ + 1]
    /\ pc' = [pc EXCEPT ![t] = "rl_unlock"]
    /\ UNCHANGED <<qVars, srvVars, mainVars, putVars, lk, passed_since, writers_ahead, window>>

rd_priority_rd_lock_unlock(t) ==
    LET l == lk[t]  r == rw[l] IN
    /\ pc[t] = "rl_unlock" /\ r.priority = "READERS"
    /\ rw' = [rw EXCEPT ![l].mutex = NoThread]
    /\ pc' = [pc EXCEPT ![t] = "rd_held"]
    /\ UNCHANGED <<qVars, srvVars, mainVars, putVars, lk, passed_since, writers_ahead, window>>

rd_priority_rd_unlock_mutex(t) ==
    LET l == lk[t]  r == rw[l] IN
    /\ pc[t] = "ru_mutex" /\ r.priority = "READERS"
    /\ r.mutex = NoThread
    /\ rw' = [rw EXCEPT ![l].mutex = t, ![l].readers_holding = @ - 1]
    /\ pc' = [pc EXCEPT ![t] = IF last_reader(r) THEN "ru_post" ELSE "ru_unlock"]
    /\ UNCHANGED <<qVars, srvVars, mainVars, putVars, lk, passed_since, writers_ahead, window>>

rd_priority_rd_unlock_post(t) ==
    LET l == lk[t]  r == rw[l] IN
    /\ pc[t] = "ru_post" /\ r.priority = "READERS"
    /\ \E W \in (IF r.writers_waiting > 0 THEN cond_signal(r.wr_cond, 1) ELSE {r.wr_cond}) :
          rw' = [rw EXCEPT ![l].write_lock = @ + 1, ![l].wr_cond = W]
    /\ pc' = [pc EXCEPT ![t] = "ru_unlock"]
    /\ UNCHANGED <<qVars, srvVars, mainVars, putVars, lk, passed_since, writers_ahead, window>>

rd_priority_rd_unlock_unlock(t) ==
    LET l == lk[t]  r == rw[l] IN
    /\ pc[t] = "ru_unlock" /\ r.priority = "READERS"
    /\ rw' = [rw EXCEPT ![l].mutex = NoThread]
    /\ pc' = [pc EXCEPT ![t] = "unlocked"]
    /\ UNCHANGED <<qVars, srvVars, mainVars, putVars, lk, passed_since, writers_ahead, window>>

rd_priority_wr_lock_mutex(t) ==
    LET l == lk[t]  r == rw[l] IN
    /\ pc[t] = "wl_mutex" /\ r.priority = "READERS"
    /\ r.mutex = NoThread
    /\ rw' = [rw EXCEPT ![l].mutex = t, ![l].writers_waiting = @ + 1]
    /\ pc' = [pc EXCEPT ![t] = "wl_while"]
    /\ UNCHANGED <<qVars, srvVars, mainVars, putVars, lk, passed_since, writers_ahead, window>>

rd_priority_wr_lock_while(t) ==
    LET l == lk[t]  r == rw[l] IN
    /\ pc[t] = "wl_while" /\ r.priority = "READERS"
    /\ IF rd_priority_wr_must_wait(r)
       THEN /\ rw' = [rw EXCEPT ![l].mutex = NoThread, ![l].wr_cond = @ \cup {t}]
            /\ pc' = [pc EXCEPT ![t] = "wl_wait"]
       ELSE /\ rw' = [rw EXCEPT ![l].mutex = NoThread,
                                ![l].writers_waiting = @ - 1,
                                ![l].writer_holding = TRUE]
            /\ pc' = [pc EXCEPT ![t] = "wl_sem"]
    /\ UNCHANGED <<qVars, srvVars, mainVars, putVars, lk, passed_since, writers_ahead, window>>

rd_priority_wr_lock_wake(t) ==
    LET l == lk[t]  r == rw[l] IN
    /\ pc[t] = "wl_wait" /\ r.priority = "READERS"
    /\ t \notin r.wr_cond
    /\ r.mutex = NoThread
    /\ rw' = [rw EXCEPT ![l].mutex = t]
    /\ pc' = [pc EXCEPT ![t] = "wl_while"]
    /\ UNCHANGED <<qVars, srvVars, mainVars, putVars, lk, passed_since, writers_ahead, window>>

rd_priority_wr_lock_sem(t) ==
    LET l == lk[t]  r == rw[l] IN
    /\ pc[t] = "wl_sem" /\ r.priority = "READERS"
    /\ r.write_lock > 0
    /\ rw' = [rw EXCEPT ![l].write_lock = @ - 1]
    /\ pc' = [pc EXCEPT ![t] = "wr_held"]
    /\ UNCHANGED <<qVars, srvVars, mainVars, putVars, lk, passed_since, writers_ahead, window>>

rd_priority_wr_unlock_post(t) ==
    LET l == lk[t]  r == rw[l] IN
    /\ pc[t] = "wu_post" /\ r.priority = "READERS"
    /\ rw' = [rw EXCEPT ![l].write_lock = @ + 1]
    /\ pc' = [pc EXCEPT ![t] = "wu_mutex"]
    /\ UNCHANGED <<qVars, srvVars, mainVars, putVars, lk, passed_since, writers_ahead, window>>

rd_priority_wr_unlock_mutex(t) ==
    LET l == lk[t]  r == rw[l] IN
    /\ pc[t] = "wu_mutex" /\ r.priority = "READERS"
    /\ r.mutex = NoThread
    /\ \E W \in (IF r.readers_holding = 0 /\ r.writers_waiting > 0
                 THEN cond_signal(r.wr_cond, 1) ELSE {r.wr_cond}) :
          rw' = [rw EXCEPT ![l].mutex = t, ![l].writer_holding = FALSE, ![l].wr_cond = W]
    /\ pc' = [pc EXCEPT ![t] = "wu_unlock"]
    /\ UNCHANGED <<qVars, srvVars, mainVars, putVars, lk, passed_since, writers_ahead, window>>

rd_priority_wr_unlock_unlock(t) ==
    LET l == lk[t]  r == rw[l] IN
    /\ pc[t] = "wu_unlock" /\ r.priority = "READERS"
    /\ rw' = [rw EXCEPT ![l].mutex = NoThread]
    /\ pc' = [pc EXCEPT ![t] = "unlocked"]
    /\ UNCHANGED <<qVars, srvVars, mainVars, putVars, lk, passed_since, writers_ahead, window>>

\* --- WRITERS policy ---------------------------------------------------------
wr_priority_rd_lock_mutex(t) ==
    LET l == lk[t]  r == rw[l] IN
    /\ pc[t] = "rl_mutex" /\ r.priority = "WRITERS"
    /\ r.mutex = NoThread
    /\ rw' = [rw EXCEPT ![l].mutex = t, ![l].readers_waiting = @ + 1]
    /\ pc' = [pc EXCEPT ![t] = "rl_while"]
    /\ UNCHANGED <<qVars, srvVars, mainVars, putVars, lk, passed_since, writers_ahead, window>>

wr_priority_rd_lock_while(t) ==
    LET l == lk[t]  r == rw[l] IN
    /\ pc[t] = "rl_while" /\ r.priority = "WRITERS"
    /\ IF wr_priority_rd_must_wait(r)
       THEN /\ rw' = [rw EXCEPT ![l].mutex = NoThread, ![l].rd_cond = @ \cup {t}]
            /\ pc' = [pc EXCEPT ![t] = "rl_wait"]
       ELSE IF first_reader(r)
       THEN /\ rw' = rw
            /\ pc' = [pc EXCEPT ![t] = "rl_sem"]
       ELSE /\ rw' = [rw EXCEPT ![l].readers_waiting = @ - 1, ![l].readers_holding = @ + 1]
            /\ pc' = [pc EXCEPT ![t] = "rl_unlock"]
    /\ UNCHANGED <<qVars, srvVars, mainVars, putVars, lk, passed_since, writers_ahead, window>>

wr_priority_rd_lock_wake(t) ==
    LET l == lk[t]  r == rw[l] IN
    /\ pc[t] = "rl_wait" /\ r.priority = "WRITERS"
    /\ t \notin r.rd_cond
    /\ r.mutex = NoThread
    /\ rw' = [rw EXCEPT ![l].mutex = t]
    /\ pc' = [pc EXCEPT ![t] = "rl_while"]
    /\ UNCHANGED <<qVars, srvVars, mainVars, putVars, lk, passed_since, writers_ahead, window>>

wr_priority_rd_lock_sem(t) ==
    LET l == lk[t]  r == rw[l] IN
    /\ pc[t] = "rl_sem" /\ r.priority = "WRITERS"
    /\ r.write_lock > 0
    /\ rw' = [rw EXCEPT ![l].write_lock = @ - 1,
                        ![l].readers_waiting = @ - 1,
                        ![l].readers_holding = @ + 1]
    /\ pc' = [pc EXCEPT ![t] = "rl_unlock"]
    /\ UNCHANGED <<qVars, srvVars, mainVars, putVars, lk, passed_since, writers_ahead, window>>

wr_priority_rd_lock_unlock(t) ==
    LET l == lk[t]  r == rw[l] IN
    /\ pc[t] = "rl_unlock" /\ r.priority = "WRITERS"
    /\ rw' = [rw EXCEPT ![l].mutex = NoThread]
    /\ pc' = [pc EXCEPT ![t] = "rd_held"]
    /\ UNCHANGED <<qVars, srvVars, mainVars, putVars, lk, passed_since, writers_ahead, window>>

wr_priority_rd_unlock_mutex(t) ==
    LET l == lk[t]  r == rw[l] IN
    /\ pc[t] = "ru_mutex" /\ r.priority = "WRITERS"
    /\ r.mutex = NoThread
    /\ IF last_reader(r)
       THEN /\ rw' = [rw EXCEPT ![l].mutex = t, ![l].readers_holding = @ - 1]
            /\ pc' = [pc EXCEPT ![t] = "ru_post"]
       ELSE /\ rw' = [rw EXCEPT ![l].mutex = t, ![l].readers_holding = @ - 1,
                                ![l].rd_cond =
                                    IF r.writers_waiting = 0 /\ r.readers_waiting > 0
                                    THEN cond_broadcast(@) ELSE @]
            /\ pc' = [pc EXCEPT ![t] = "ru_unlock"]
    /\ UNCHANGED <<qVars, srvVars, mainVars, putVars, lk, passed_since, writers_ahead, window>>

wr_priority_rd_unlock_post(t) ==
    LET l == lk[t]  r == rw[l] IN
    /\ pc[t] = "ru_post" /\ r.priority = "WRITERS"
    /\ rw' = [rw EXCEPT ![l].write_lock = @ + 1]
    /\ pc' = [pc EXCEPT ![t] = "ru_unlock"]
    /\ UNCHANGED <<qVars, srvVars, mainVars, putVars, lk, passed_since, writers_ahead, window>>

wr_priority_rd_unlock_unlock(t) ==
    LET l == lk[t]  r == rw[l] IN
    /\ pc[t] = "ru_unlock" /\ r.priority = "WRITERS"
    /\ rw' = [rw EXCEPT ![l].mutex = NoThread]
    /\ pc' = [pc EXCEPT ![t] = "unlocked"]
    /\ UNCHANGED <<qVars, srvVars, mainVars, putVars, lk, passed_since, writers_ahead, window>>

wr_priority_wr_lock_mutex(t) ==
    LET l == lk[t]  r == rw[l] IN
    /\ pc[t] = "wl_mutex" /\ r.priority = "WRITERS"
    /\ r.mutex = NoThread
    /\ rw' = [rw EXCEPT ![l].mutex = t, ![l].writers_waiting = @ + 1]
    /\ pc' = [pc EXCEPT ![t] = "wl_unlock"]
    /\ UNCHANGED <<qVars, srvVars, mainVars, putVars, lk, passed_since, writers_ahead, window>>

wr_priority_wr_lock_unlock(t) ==
    LET l == lk[t]  r == rw[l] IN
    /\ pc[t] = "wl_unlock" /\ r.priority = "WRITERS"
    /\ rw' = [rw EXCEPT ![l].mutex = NoThread]
    /\ pc' = [pc EXCEPT ![t] = "wl_sem"]
    /\ UNCHANGED <<qVars, srvVars, mainVars, putVars, lk, passed_since, writers_ahead, window>>

wr_priority_wr_lock_sem(t) ==
    LET l == lk[t]  r == rw[l] IN
    /\ pc[t] = "wl_sem" /\ r.priority = "WRITERS"
    /\ r.write_lock > 0
    /\ rw' = [rw EXCEPT ![l].write_lock = @ - 1]
    /\ pc' = [pc EXCEPT ![t] = "wr_held"]
    /\ UNCHANGED <<qVars, srvVars, mainVars, putVars, lk, passed_since, writers_ahead, window>>

wr_priority_wr_unlock_mutex(t) ==
    LET l == lk[t]  r == rw[l] IN
    /\ pc[t] = "wu_mutex" /\ r.priority = "WRITERS"
    /\ r.mutex = NoThread
    /\ rw' = [rw EXCEPT ![l].mutex = t, ![l].writers_waiting = @ - 1,
                        ![l].rd_cond =
                            IF r.writers_waiting = 1 /\ r.readers_waiting > 0
                            THEN cond_broadcast(@) ELSE @]
    /\ pc' = [pc EXCEPT ![t] = "wu_post"]
    /\ UNCHANGED <<qVars, srvVars, mainVars, putVars, lk, passed_since, writers_ahead, window>>

wr_priority_wr_unlock_post(t) ==
    LET l == lk[t]  r == rw[l] IN
    /\ pc[t] = "wu_post" /\ r.priority = "WRITERS"
    /\ rw' = [rw EXCEPT ![l].write_lock = @ + 1]
    /\ pc' = [pc EXCEPT ![t] = "wu_unlock"]
    /\ writers_ahead' = [x \in DOMAIN writers_ahead |-> writers_ahead[x] \ {t}]
    /\ UNCHANGED <<qVars, srvVars, mainVars, putVars, lk, passed_since, window>>

wr_priority_wr_unlock_unlock(t) ==
    LET l == lk[t]  r == rw[l] IN
    /\ pc[t] = "wu_unlock" /\ r.priority = "WRITERS"
    /\ rw' = [rw EXCEPT ![l].mutex = NoThread]
    /\ pc' = [pc EXCEPT ![t] = "unlocked"]
    /\ UNCHANGED <<qVars, srvVars, mainVars, putVars, lk, passed_since, writers_ahead, window>>

\* --- N_WAY policy -----------------------------------------------------------
nway_priority_rd_lock_mutex(t) ==
    LET l == lk[t]  r == rw[l] IN
    /\ pc[t] = "rl_mutex" /\ r.priority = "N_WAY"
    /\ r.mutex = NoThread
    /\ rw' = [rw EXCEPT ![l].mutex = t, ![l].readers_waiting = @ + 1]
    /\ pc' = [pc EXCEPT ![t] = "rl_while"]
    /\ UNCHANGED <<qVars, srvVars, mainVars, putVars, lk, passed_since, writers_ahead, window>>

\* mutant of nway_readers_passed_inc: the counter is incremented without the test
nway_readers_passed_inc_always(r) == r.readers_passed + 1

\* `if (STATE.readers_passed < STATE.n) STATE.readers_passed++` (saturating)
nway_readers_passed_inc(r) ==
    IF r.readers_passed < r.n THEN r.readers_passed + 1 ELSE r.readers_passed

nway_priority_rd_lock_while(t) ==
    LET l == lk[t]  r == rw[l] IN
    /\ pc[t] = "rl_while" /\ r.priority = "N_WAY"
    /\ IF nway_priority_rd_must_wait(r)
       THEN /\ rw' = [rw EXCEPT ![l].mutex = NoThread, ![l].rd_cond = @ \cup {t}]
            /\ pc' = [pc EXCEPT ![t] = "rl_wait"]
       ELSE IF first_reader(r)
       THEN /\ rw' = [rw EXCEPT ![l].readers_passed = nway_readers_passed_inc(r),
                                ![l].readers_waiting = @ - 1]
            /\ pc' = [pc EXCEPT ![t] = "rl_sem"]
       ELSE /\ rw' = [rw EXCEPT ![l].readers_passed = nway_readers_passed_inc(r),
                                ![l].readers_waiting = @ - 1,
                                ![l].readers_holding = @ + 1]
            /\ pc' = [pc EXCEPT ![t] = "rl_unlock"]
    /\ UNCHANGED <<qVars, srvVars, mainVars, putVars, lk, passed_since, writers_ahead, window>>

nway_priority_rd_lock_wake(t) ==
    LET l == lk[t]  r == rw[l] IN
    /\ pc[t] = "rl_wait" /\ r.priority = "N_WAY"
    /\ t \notin r.rd_cond
    /\ r.mutex = NoThread
    /\ rw' = [rw EXCEPT ![l].mutex = t]
    /\ pc' = [pc EXCEPT ![t] = "rl_while"]
    /\ UNCHANGED <<qVars, srvVars, mainVars, putVars, lk, passed_since, writers_ahead, window>>

nway_priority_rd_lock_sem(t) ==
    LET l == lk[t]  r == rw[l] IN
    /\ pc[t] = "rl_sem" /\ r.priority = "N_WAY"
    /\ r.write_lock > 0
    /\ rw' = [rw EXCEPT ![l].write_lock = @ - 1, ![l].readers_holding = @ + 1]
    /\ pc' = [pc EXCEPT ![t] = "rl_unlock"]
    /\ UNCHANGED <<qVars, srvVars, mainVars, putVars, lk, passed_since, writers_ahead, window>>

\* reader_lock returns: the reader is admitted to the critical region
nway_priority_rd_lock_unlock(t) ==
    LET l == lk[t]  r == rw[l] IN
    /\ pc[t] = "rl_unlock" /\ r.priority = "N_WAY"
    /\ rw' = [rw EXCEPT ![l].mutex = NoThread]
    /\ pc' = [pc EXCEPT ![t] = "rd_held"]
    /\ passed_since' = [w \in DOMAIN passed_since |->
                          IF w \in NwayWrWaiting(l)
                          THEN Min(passed_since[w] + 1, r.n + 1)
                          ELSE passed_since[w]]
    /\ window' = [k \in DOMAIN window |->
                    IF k = l /\ r.writers_waiting > 0
                    THEN Min(window[k] + 1, r.n + 1)
                    ELSE window[k]]
    /\ UNCHANGED <<qVars, srvVars, mainVars, putVars, lk, writers_ahead>>

nway_priority_rd_unlock_mutex(t) ==
    LET l == lk[t]  r == rw[l] IN
    /\ pc[t] = "ru_mutex" /\ r.priority = "N_WAY"
    /\ r.mutex = NoThread
    /\ rw' = [rw EXCEPT ![l].mutex = t, ![l].readers_holding = @ - 1]
    /\ pc' = [pc EXCEPT ![t] = IF last_reader(r) THEN "ru_post" ELSE "ru_unlock"]
    /\ UNCHANGED <<qVars, srvVars, mainVars, putVars, lk, passed_since, writers_ahead, window>>

\* the wake-ups of the last reader: the possible <<rd_cond, wr_cond>> afterwards
nway_priority_rd_unlock_wakeups(r) ==
    IF r.writers_waiting > 0
    THEN IF r.readers_passed >= r.n \/ r.readers_waiting = 0
         THEN { <<r.rd_cond, W>> : W \in cond_signal(r.wr_cond, 1) }
         ELSE LET should_wake == r.n - r.readers_passed IN
              IF should_wake > r.readers_waiting
              THEN { <<cond_broadcast(r.rd_cond), r.wr_cond>> }
              ELSE { <<R, r.wr_cond>> : R \in cond_signal(r.rd_cond, should_wake) }
    ELSE { <<cond_broadcast(r.rd_cond), r.wr_cond>> }

nway_priority_rd_unlock_post(t) ==
    LET l == lk[t]  r == rw[l] IN
    /\ pc[t] = "ru_post" /\ r.priority = "N_WAY"
    /\ \E c \in nway_priority_rd_unlock_wakeups(r) :
          rw' = [rw EXCEPT ![l].write_lock = @ + 1, ![l].rd_cond = c[1], ![l].wr_cond = c[2]]
    /\ pc' = [pc EXCEPT ![t] = "ru_unlock"]
    /\ UNCHANGED <<qVars, srvVars, mainVars, putVars, lk, passed_since, writers_ahead, window>>

nway_priority_rd_unlock_unlock(t) ==
    LET l == lk[t]  r == rw[l] IN
    /\ pc[t] = "ru_unlock" /\ r.priority = "N_WAY"
    /\ rw' = [rw EXCEPT ![l].mutex = NoThread]
    /\ pc' = [pc EXCEPT ![t] = "unlocked"]
    /\ UNCHANGED <<qVars, srvVars, mainVars, putVars, lk, passed_since, writers_ahead, window>>

\* writers_waiting++ : from here on the writer counts as waiting
nway_priority_wr_lock_mutex(t) ==
    LET l == lk[t]  r == rw[l] IN
    /\ pc[t] = "wl_mutex" /\ r.priority = "N_WAY"
    /\ r.mutex = NoThread
    /\ rw' = [rw EXCEPT ![l].mutex = t, ![l].writers_waiting = @ + 1]
    /\ pc' = [pc EXCEPT ![t] = "wl_while"]
    /\ passed_since' = [passed_since EXCEPT ![t] = 0]
    /\ UNCHANGED <<qVars, srvVars, mainVars, putVars, lk, writers_ahead, window>>

nway_priority_wr_lock_while(t) ==
    LET l == lk[t]  r == rw[l] IN
    /\ pc[t] = "wl_while" /\ r.priority = "N_WAY"
    /\ IF nway_priority_wr_must_wait(r)
       THEN /\ rw' = [rw EXCEPT ![l].mutex = NoThread, ![l].wr_cond = @ \cup {t}]
            /\ pc' = [pc EXCEPT ![t] = "wl_wait"]
       ELSE /\ rw' = [rw EXCEPT ![l].mutex = NoThread]
            /\ pc' = [pc EXCEPT ![t] = "wl_sem"]
    /\ UNCHANGED <<qVars, srvVars, mainVars, putVars, lk, passed_since, writers_ahead, window>>

nway_priority_wr_lock_wake(t) ==
    LET l == lk[t]  r == rw[l] IN
    /\ pc[t] = "wl_wait" /\ r.priority = "N_WAY"
    /\ t \notin r.wr_cond
    /\ r.mutex = NoThread
    /\ rw' = [rw EXCEPT ![l].mutex = t]
    /\ pc' = [pc EXCEPT ![t] = "wl_while"]
    /\ UNCHANGED <<qVars, srvVars, mainVars, putVars, lk, passed_since, writers_ahead, window>>

\* sem_wait(&rw->write_lock) returns: the writer is granted the lock
nway_priority_wr_lock_sem(t) ==
    LET l == lk[t]  r == rw[l] IN
    /\ pc[t] = "wl_sem" /\ r.priority = "N_WAY"
    /\ r.write_lock > 0
    /\ rw' = [rw EXCEPT ![l].write_lock = @ - 1]
    /\ pc' = [pc EXCEPT ![t] = "wr_held"]
    /\ passed_since' = [passed_since EXCEPT ![t] = 0]
    /\ UNCHANGED <<qVars, srvVars, mainVars, putVars, lk, writers_ahead, window>>

nway_priority_wr_unlock_post(t) ==
    LET l == lk[t]  r == rw[l] IN
    /\ pc[t] = "wu_post" /\ r.priority = "N_WAY"
    /\ rw' = [rw EXCEPT ![l].write_lock = @ + 1]
    /\ pc' = [pc EXCEPT ![t] = "wu_mutex"]
    /\ UNCHANGED <<qVars, srvVars, mainVars, putVars, lk, passed_since, writers_ahead, window>>

\* the wake-ups of writer_unlock: the possible <<rd_cond, wr_cond>> afterwards
nway_priority_wr_unlock_wakeups(r) ==
    IF r.readers_waiting > 0
    THEN LET should_wake == r.n IN
         IF r.readers_waiting > should_wake
         THEN { <<R, r.wr_cond>> : R \in cond_signal(r.rd_cond, should_wake) }
         ELSE { <<cond_broadcast(r.rd_cond), r.wr_cond>> }
    ELSE { <<r.rd_cond, W>> : W \in cond_signal(r.wr_cond, 1) }

nway_priority_wr_unlock_mutex(t) ==
    LET l == lk[t]  r == rw[l] IN
    /\ pc[t] = "wu_mutex" /\ r.priority = "N_WAY"
    /\ r.mutex = NoThread
    /\ \E c \in nway_priority_wr_unlock_wakeups(r) :
          rw' = [rw EXCEPT ![l].mutex = t,
                           ![l].writers_waiting = @ - 1,
                           ![l].readers_passed = 0,
                           ![l].rd_cond = c[1], ![l].wr_cond = c[2]]
    /\ pc' = [pc EXCEPT ![t] = "wu_unlock"]
    /\ window' = [k \in DOMAIN window |-> IF k = l THEN 0 ELSE window[k]]
    /\ UNCHANGED <<qVars, srvVars, mainVars, putVars, lk, passed_since, writers_ahead>>

nway_priority_wr_unlock_unlock(t) ==
    LET l == lk[t]  r == rw[l] IN
    /\ pc[t] = "wu_unlock" /\ r.priority = "N_WAY"
    /\ rw' = [rw EXCEPT ![l].mutex = NoThread]
    /\ pc' = [pc EXCEPT ![t] = "unlocked"]
    /\ UNCHANGED <<qVars, srvVars, mainVars, putVars, lk, passed_since, writers_ahead, window>>

\* ------------------------------------------------- the lock used on its own
\* a client thread that uses the lock correctly: lock, critical region, unlock
client_call(t) ==
    /\ pc[t] = "unlocked"
    /\ \E c \in {"call_reader_lock", "call_writer_lock"} : pc' = [pc EXCEPT ![t] = c]
    /\ UNCHANGED <<qVars, srvVars, mainVars, putVars, rw, lk, passed_since, writers_ahead, window>>

client_critical(t) ==
    /\ pc[t] \in {"rd_held", "wr_held"}
    /\ pc' = [pc EXCEPT ![t] = IF pc[t] = "rd_held" THEN "call_reader_unlock"
                                                    ELSE "call_writer_unlock"]
    /\ UNCHANGED <<qVars, srvVars, mainVars, putVars, rw, lk, passed_since, writers_ahead, window>>

InitRW ==
    /\ \E p \in Priorities : \E n \in 1..MaxN :
          /\ (p # "N_WAY" => n = 1)
          /\ rw = [l \in {0} |-> rwlock_new(p, n)]
    /\ pc = [t \in 1..NumThreads |-> "unlocked"]
    /\ lk = [t \in 1..NumThreads |-> 0]
    /\ passed_since = [t \in 1..NumThreads |-> 0]
    /\ writers_ahead = [t \in 1..NumThreads |-> {}]
    /\ window = [l \in {0} |-> 0]
    /\ MainUnused
    /\ PutUnused
    /\ QueueUnused
    /\ ServerUnused

\* one step of some thread inside a lock operation
LockStep ==
    \/ \E t \in Threads : reader_lock(t)
    \/ \E t \in Threads : reader_unlock(t)
    \/ \E t \in Threads : writer_lock(t)
    \/ \E t \in Threads : writer_unlock(t)
    \/ \E t \in Threads : spurious_wakeup(t)
    \/ \E t \in Threads : rd_priority_rd_lock_mutex(t)
    \/ \E t \in Threads : rd_priority_rd_lock_sem(t)
    \/ \E t \in Threads : rd_priority_rd_lock_unlock(t)
    \/ \E t \in Threads : rd_priority_rd_unlock_mutex(t)
    \/ \E t \in Threads : rd_priority_rd_unlock_post(t)
    \/ \E t \in Threads : rd_priority_rd_unlock_unlock(t)
    \/ \E t \in Threads : rd_priority_wr_lock_mutex(t)
    \/ \E t \in Threads : rd_priority_wr_lock_while(t)
    \/ \E t \in Threads : rd_priority_wr_lock_wake(t)
    \/ \E t \in Threads : rd_priority_wr_lock_sem(t)
    \/ \E t \in Threads : rd_priority_wr_unlock_post(t)
    \/ \E t \in Threads : rd_priority_wr_unlock_mutex(t)
    \/ \E t \in Threads : rd_priority_wr_unlock_unlock(t)
    \/ \E t \in Threads : wr_priority_rd_lock_mutex(t)
    \/ \E t \in Threads : wr_priority_rd_lock_while(t)
    \/ \E t \in Threads : wr_priority_rd_lock_wake(t)
    \/ \E t \in Threads : wr_priority_rd_lock_sem(t)
    \/ \E t \in Threads : wr_priority_rd_lock_unlock(t)
    \/ \E t \in Threads : wr_priority_rd_unlock_mutex(t)
    \/ \E t \in Threads : wr_priority_rd_unlock_post(t)
    \/ \E t \in Threads : wr_priority_rd_unlock_unlock(t)
    \/ \E t \in Threads : wr_priority_wr_lock_mutex(t)
    \/ \E t \in Threads : wr_priority_wr_lock_unlock(t)
    \/ \E t \in Threads : wr_priority_wr_lock_sem(t)
    \/ \E t \in Threads : wr_priority_wr_unlock_mutex(t)
    \/ \E t \in Threads : wr_priority_wr_unlock_post(t)
    \/ \E t \in Threads : wr_priority_wr_unlock_unlock(t)
    \/ \E t \in Threads : nway_priority_rd_lock_mutex(t)
    \/ \E t \in Threads : nway_priority_rd_lock_while(t)
    \/ \E t \in Threads : nway_priority_rd_lock_wake(t)
    \/ \E t \in Threads : nway_priority_rd_lock_sem(t)
    \/ \E t \in Threads : nway_priority_rd_lock_unlock(t)
    \/ \E t \in Threads : nway_priority_rd_unlock_mutex(t)
    \/ \E t \in Threads : nway_priority_rd_unlock_post(t)
    \/ \E t \in Threads : nway_priority_rd_unlock_unlock(t)
    \/ \E t \in Threads : nway_priority_wr_lock_mutex(t)
    \/ \E t \in Threads : nway_priority_wr_lock_while(t)
    \/ \E t \in Threads : nway_priority_wr_lock_wake(t)
    \/ \E t \in Threads : nway_priority_wr_lock_sem(t)
    \/ \E t \in Threads : nway_priority_wr_unlock_post(t)
    \/ \E t \in Threads : nway_priority_wr_unlock_mutex(t)
    \/ \E t \in Threads : nway_priority_wr_unlock_unlock(t)

NextRW ==
    \/ LockStep
    \/ \E t \in Threads : client_call(t)
    \/ \E t \in Threads : client_critical(t)

SpecRW == InitRW /\ [][NextRW]_vars

\* ------------------------------------------------- properties of the lock
ReadersIn(l) == { t \in Threads : lk[t] = l /\ ReaderIn(t) }
WritersIn(l) == { t \in Threads : lk[t] = l /\ WriterIn(t) }

\* writers that invoked writer_lock and have not yet posted the gate in writer_unlock
WritersPendingOrHolding(l) ==
    { t \in Threads : lk[t] = l /\
        pc[t] \in {"call_writer_lock", "wl_mutex", "wl_while", "wl_wait", "wl_unlock", "wl_sem",
                   "wr_held", "wr_audit", "call_writer_unlock", "wu_post"} \cup
                  (IF rw[l].priority = "WRITERS" THEN {"wu_mutex"} ELSE {}) }

\* C1: under every policy no thread that returned from reader_lock (and has not
\* called reader_unlock) coexists with a thread that returned from writer_lock
\* (and has not called writer_unlock).
C1_ReaderWriterExclusion ==
    \A l \in DOMAIN rw : ReadersIn(l) = {} \/ WritersIn(l) = {}

\* a reader holds while a writer has asked for the lock and is kept at the gate
C1_Witness ==
    \E l \in DOMAIN rw : \E r, w \in Threads :
        /\ lk[r] = l /\ lk[w] = l
        /\ ReaderIn(r) /\ pc[w] = "wl_sem" /\ rw[l].write_lock = 0

\* C2: under every policy at most one thread is between the return of
\* writer_lock and its call of writer_unlock.
C2_SingleWriter ==
    \A l \in DOMAIN rw : Cardinality(WritersIn(l)) <= 1

\* one writer holds while another writer is blocked at the gate
C2_Witness ==
    \E l \in DOMAIN rw : \E w1, w2 \in Threads :
        /\ w1 # w2 /\ lk[w1] = l /\ lk[w2] = l
        /\ WriterIn(w1) /\ pc[w2] = "wl_sem"

\* C7: under N_WAY with parameter N, for every waiting writer at most N readers
\* enter the critical region between the moment it starts waiting and the
\* moment it is granted the lock, also with other writers waiting or holding.
C7_NwayQuotaPerWriter ==
    \A w \in Threads :
        (rw[lk[w]].priority = "N_WAY" /\ w \in NwayWrWaiting(lk[w]))
            => passed_since[w] <= rw[lk[w]].n

\* C8: under WRITERS, a reader_lock call that began after a writer registered as
\* waiting does not return before that writer was granted the lock and released it.
C8_WritersFirst ==
    \A t \in Threads :
        (rw[lk[t]].priority = "WRITERS" /\ ReaderIn(t)) => writers_ahead[t] = {}

\* a reader_lock call that began behind a registered writer is blocked on rd_cond
C8_Witness ==
    \E t \in Threads :
        /\ rw[lk[t]].priority = "WRITERS"
        /\ pc[t] = "rl_wait"
        /\ writers_ahead[t] # {}

\* C9: under N_WAY, no reader_lock call is left blocked on the reader condition
\* while writers_waiting = 0 and the lock is idle or held by readers.
C9_ReadersNeverThrottled ==
    \A t \in Threads :
        LET r == rw[lk[t]] IN
        ~ ( /\ r.priority = "N_WAY"
            /\ pc[t] = "rl_wait" /\ t \in r.rd_cond
            /\ r.writers_waiting = 0
            /\ r.mutex = NoThread
            /\ WritersIn(lk[t]) = {} )

\* C10: under READERS, with no writer pending or holding, a reader inside
\* reader_lock never waits on the writer condition, only a first reader goes to
\* the write gate, and it finds the gate available.
C10_ReadersDoNotSerialize ==
    \A t \in Threads :
        LET r == rw[lk[t]] IN
        (r.priority = "READERS" /\ pc[t] \in {"rl_mutex", "rl_sem", "rl_unlock"})
            => /\ t \notin r.wr_cond
               /\ pc[t] = "rl_sem" => r.readers_holding = 0
               /\ (pc[t] = "rl_sem" /\ WritersPendingOrHolding(lk[t]) = {})
                     => r.write_lock > 0

\* two readers hold a READERS lock at the same time, no writer around
C10_Witness ==
    \E l \in DOMAIN rw :
        /\ rw[l].priority = "READERS"
        /\ rw[l].readers_holding = 2
        /\ Cardinality(ReadersIn(l)) = 2
        /\ WritersPendingOrHolding(l) = {}

\* writers that took the write gate (sem_wait returned) and have not posted it yet
GateWriters(l) ==
    { t \in Threads : lk[t] = l /\
        pc[t] \in {"wr_held", "wr_audit", "call_writer_unlock", "wu_post"} \cup
                  (IF rw[l].priority = "WRITERS" THEN {"wu_mutex"} ELSE {}) }

\* C26: for every policy the write gate is 0 or 1, at most one writer has it,
\* and whenever the internal mutex is free the gate is unavailable exactly when
\* a writer has it or readers_holding > 0 (one acquisition, by the first reader,
\* covers the whole cohort and is posted once, by the last reader).
C26_WriteGate ==
    \A l \in DOMAIN rw :
        /\ rw[l].write_lock \in {0, 1}
        /\ Cardinality(GateWriters(l)) <= 1
        /\ rw[l].mutex = NoThread =>
              ( rw[l].write_lock = 0
                  <=> (GateWriters(l) # {} \/ rw[l].readers_holding > 0) )
        /\ rw[l].mutex = NoThread =>
              ~(GateWriters(l) # {} /\ rw[l].readers_holding > 0)

\* a cohort of two readers covered by one acquisition of the gate, one of them
\* about to leave without being the last
C26_Witness ==
    \E l \in DOMAIN rw : \E t \in Threads :
        /\ rw[l].mutex = NoThread /\ rw[l].write_lock = 0
        /\ rw[l].readers_holding = 2 /\ GateWriters(l) = {}
        /\ lk[t] = l /\ pc[t] = "ru_mutex"

\* C27: under READERS a first reader blocked on the write gate inside
\* reader_lock (a writer has the gate) does not hold the internal mutex.
C27_GateWaitReleasesMutex ==
    \A t \in Threads :
        ( /\ rw[lk[t]].priority = "READERS"
          /\ pc[t] = "rl_sem"
          /\ rw[lk[t]].write_lock = 0 )
        => rw[lk[t]].mutex # t

\* the lock is held by readers / by a writer
ReadersHeld(l) == rw[l].readers_holding > 0
WriterHeld(l) == GateWriters(l) # {}

\* C29: for every policy no step takes the lock from held by readers to held
\* by a writer or from held by a writer to held by readers.
C29_OnlyViaIdle ==
    [][ \A l \in DOMAIN rw :
          /\ ReadersHeld(l) => ~WriterHeld(l)'
          /\ WriterHeld(l) => ~ReadersHeld(l)'
      ]_vars

\* the lock is idle between a cohort of readers and a writer: the last reader
\* has posted the gate and a writer is at the gate, about to take it
C29_Witness ==
    \E l \in DOMAIN rw : \E r, w \in Threads :
        /\ lk[r] = l /\ lk[w] = l
        /\ pc[r] = "ru_unlock" /\ pc[w] = "wl_sem"
        /\ rw[l].write_lock = 1 /\ rw[l].readers_holding = 0
        /\ ~WriterHeld(l)

\* C30: under N_WAY, in one window (from the creation of the lock, or from the
\* step of writer_unlock that resets readers_passed, to the next such step) at
\* most N reader_lock calls return at moments when writers_waiting > 0.
C30_WindowQuota ==
    \A l \in DOMAIN window :
        rw[l].priority = "N_WAY" => window[l] <= rw[l].n

\* the quota of the window is used up while a writer waits: a reader is kept on
\* rd_cond after N readers were admitted with writers_waiting > 0
C30_Witness ==
    \E l \in DOMAIN window : \E t \in Threads :
        /\ rw[l].priority = "N_WAY"
        /\ window[l] = rw[l].n
        /\ rw[l].writers_waiting > 0
        /\ lk[t] = l /\ pc[t] = "rl_wait"

\* ------------------------------------------- rwlock_new on every argument
\* the lock specification started from the result of rwlock_new on valid and
\* invalid arguments; the clients use whatever handle they were given
InitNew ==
    /\ \E p \in Priorities \cup {BadPriority} : \E n \in 0..MaxN :
          /\ (p # "N_WAY" => n = 1)
          /\ rw = [l \in {0} |-> rwlock_new(p, n)]
    /\ pc = [t \in 1..NumThreads |-> "unlocked"]
    /\ lk = [t \in 1..NumThreads |-> 0]
    /\ passed_since = [t \in 1..NumThreads |-> 0]
    /\ writers_ahead = [t \in 1..NumThreads |-> {}]
    /\ window = [l \in {0} |-> 0]
    /\ MainUnused
    /\ PutUnused
    /\ QueueUnused
    /\ ServerUnused

SpecNew == InitNew /\ [][NextRW]_vars

\* positions of a client outside the body of a lock operation
OutsideLockOp ==
    {"unlocked", "call_reader_lock", "rd_held", "call_reader_unlock",
     "call_writer_lock", "wr_held", "call_writer_unlock"}

\* C25: rwlock_new returns NULL exactly for a priority outside the enum and for
\* N_WAY with n = 0; on a null handle each of the four lock operations returns
\* in its first step, never reaching a blocking call, and changes nothing.
C25_NullHandle ==
    [][ /\ \A p \in Priorities \cup {BadPriority} : \A n \in 0..MaxN :
              (rwlock_new(p, n) = NULL) <=> (p = BadPriority \/ (p = "N_WAY" /\ n = 0))
        /\ \A t \in Threads :
              rw[lk[t]] = NULL =>
                  /\ pc[t] \in OutsideLockOp /\ pc'[t] \in OutsideLockOp
                  /\ rw' = rw /\ lk' = lk
                  /\ pc[t] = "call_reader_lock" => pc'[t] \in {pc[t], "rd_held"}
                  /\ pc[t] = "call_writer_lock" => pc'[t] \in {pc[t], "wr_held"}
                  /\ pc[t] \in {"call_reader_unlock", "call_writer_unlock"}
                        => pc'[t] \in {pc[t], "unlocked"}
      ]_vars

\* on a null handle a reader_lock call and a writer_lock call have both returned
C25_Witness ==
    /\ rw[0] = NULL
    /\ \E r, w \in Threads : pc[r] = "rd_held" /\ pc[w] = "wr_held"

\* ------------------------------- the READERS policy under a stream of readers
\* the callers of a READERS lock when readers keep arriving: thread StreamWriter
\* calls writer_lock, every other thread calls reader_lock
StreamWriter == 1

stream_call(t) ==
    /\ pc[t] = "unlocked"
    /\ pc' = [pc EXCEPT ![t] = IF t = StreamWriter THEN "call_writer_lock"
                                                   ELSE "call_reader_lock"]
    /\ UNCHANGED <<qVars, srvVars, mainVars, putVars, rw, lk, passed_since, writers_ahead, window>>

\* the writer has called writer_lock and has not been granted the lock
WriterPending ==
    pc[StreamWriter] \in {"call_writer_lock", "wl_mutex", "wl_while", "wl_wait", "wl_sem"}

\* while the writer is pending a reader of the stream leaves only when another
\* reader is holding, so that readers_holding does not reach 0; the writer
\* leaves freely
stream_leave(t) ==
    /\ pc[t] \in {"rd_held", "wr_held"}
    /\ (pc[t] = "rd_held" /\ WriterPending) => \E r \in Threads \ {t} : pc[r] = "rd_held"
    /\ pc' = [pc EXCEPT ![t] = IF pc[t] = "rd_held" THEN "call_reader_unlock"
                                                    ELSE "call_writer_unlock"]
    /\ UNCHANGED <<qVars, srvVars, mainVars, putVars, rw, lk, passed_since, writers_ahead, window>>

InitStarve ==
    /\ rw = [l \in {0} |-> rwlock_new("READERS", 1)]
    /\ pc = [t \in 1..NumThreads |-> "unlocked"]
    /\ lk = [t \in 1..NumThreads |-> 0]
    /\ passed_since = [t \in 1..NumThreads |-> 0]
    /\ writers_ahead = [t \in 1..NumThreads |-> {}]
    /\ window = [l \in {0} |-> 0]
    /\ MainUnused
    /\ PutUnused
    /\ QueueUnused
    /\ ServerUnused

\* the steps of thread t that the scheduler owes it: everything but a spurious
\* wake-up
StarveStep(t) ==
    \/ stream_call(t)
    \/ stream_leave(t)
    \/ reader_lock(t)
    \/ reader_unlock(t)
    \/ writer_lock(t)
    \/ writer_unlock(t)
    \/ rd_priority_rd_lock_mutex(t)
    \/ rd_priority_rd_lock_sem(t)
    \/ rd_priority_rd_lock_unlock(t)
    \/ rd_priority_rd_unlock_mutex(t)
    \/ rd_priority_rd_unlock_post(t)
    \/ rd_priority_rd_unlock_unlock(t)
    \/ rd_priority_wr_lock_mutex(t)
    \/ rd_priority_wr_lock_while(t)
    \/ rd_priority_wr_lock_wake(t)
    \/ rd_priority_wr_lock_sem(t)
    \/ rd_priority_wr_unlock_post(t)
    \/ rd_priority_wr_unlock_mutex(t)
    \/ rd_priority_wr_unlock_unlock(t)

NextStarve ==
    \/ \E t \in Threads : stream_call(t)
    \/ \E t \in Threads : stream_leave(t)
    \/ \E t \in Threads : reader_lock(t)
    \/ \E t \in Threads : reader_unlock(t)
    \/ \E t \in Threads : writer_lock(t)
    \/ \E t \in Threads : writer_unlock(t)
    \/ \E t \in Threads : spurious_wakeup(t)
    \/ \E t \in Threads : rd_priority_rd_lock_mutex(t)
    \/ \E t \in Threads : rd_priority_rd_lock_sem(t)
    \/ \E t \in Threads : rd_priority_rd_lock_unlock(t)
    \/ \E t \in Threads : rd_priority_rd_unlock_mutex(t)
    \/ \E t \in Threads : rd_priority_rd_unlock_post(t)
    \/ \E t \in Threads : rd_priority_rd_unlock_unlock(t)
    \/ \E t \in Threads : rd_priority_wr_lock_mutex(t)
    \/ \E t \in Threads : rd_priority_wr_lock_while(t)
    \/ \E t \in Threads : rd_priority_wr_lock_wake(t)
    \/ \E t \in Threads : rd_priority_wr_lock_sem(t)
    \/ \E t \in Threads : rd_priority_wr_unlock_post(t)
    \/ \E t \in Threads : rd_priority_wr_unlock_mutex(t)
    \/ \E t \in Threads : rd_priority_wr_unlock_unlock(t)

\* every thread is scheduled fairly, also in the contention for the mutex
\* (strong fairness): the executions of the stream are fair to the writer
SpecStarve ==
    InitStarve /\ [][NextStarve]_vars /\ \A t \in 1..NumThreads : SF_vars(StarveStep(t))

\* a reader of the stream is holding
StreamOn == \E r \in Threads : pc[r] = "rd_held"
\* a reader has just been admitted next to a reader that holds
ReaderAdmitted ==
    \E r \in Threads : pc[r] = "rl_unlock" /\ rw[lk[r]].readers_holding >= 2
\* a reader is kept waiting inside reader_lock by something other than the mutex
ReaderKept ==
    \E r \in Threads : pc[r] \in {"rl_wait", "rl_while"}
                       \/ (pc[r] = "rl_sem" /\ rw[lk[r]].write_lock = 0)

\* C11: under READERS, in the fair executions in which a reader holds while
\* the writer is inside writer_lock and readers keep arriving so that
\* readers_holding never reaches 0, every arriving reader is admitted without
\* waiting for the writer, again and again, and the writer stays blocked in
\* writer_lock for ever (on its condition or at the write gate): it never
\* acquires the lock.
C11_WriterStarvation ==
    /\ []((StreamOn /\ WriterPending)
            => [](WriterPending /\ rw[0].readers_holding > 0 /\ ~ReaderKept))
    /\ []((StreamOn /\ WriterPending) => []<>ReaderAdmitted)

\* the writer waits on its condition while a reader holds and another reader,
\* which took the mutex after the writer registered, has been admitted
C11_Witness ==
    \E r1, r2 \in Threads :
        /\ pc[StreamWriter] = "wl_wait" /\ rw[0].writers_waiting = 1
        /\ pc[r1] = "rd_held"
        /\ pc[r2] = "rl_unlock" /\ rw[0].mutex = r2 /\ rw[0].readers_holding = 2

\* ------------------------------------------------------------- queue.c
Producers == 1..NumProducers
Consumers == (NumProducers + 1)..(NumProducers + NumConsumers)
\* the elements pushed: <<producer, sequence number>>
Items == Producers \X (1..MaxItems)
\* content of a slot of the malloc'ed buffer that was never written
Uninit == <<0, 0>>

\* mutant of queue_new: the empty-slot semaphore starts one too high
queue_new_one_more(size) ==
    [ size    |-> size,
      buf     |-> [i \in 0..(size - 1) |-> Uninit],
      head    |-> 0,
      tail    |-> 0,
      wr_lock |-> NoThread,
      rd_lock |-> NoThread,
      rd_sem  |-> 0,
      wr_sem  |-> size + 1 ]

\* queue_new(size): head = tail = 0, rd_sem = 0, wr_sem = size
queue_new(size) ==
    [ size    |-> size,
      buf     |-> [i \in 0..(size - 1) |-> Uninit],
      head    |-> 0,
      tail    |-> 0,
      wr_lock |-> NoThread,
      rd_lock |-> NoThread,
      rd_sem  |-> 0,
      wr_sem  |-> size ]

\* a producer calls queue_push with its next element
producer_call(t) ==
    /\ t \in Producers /\ qpc[t] = "idle"
    /\ sent[t] < MaxItems
    /\ sent' = [sent EXCEPT ![t] = @ + 1]
    /\ elem' = [elem EXCEPT ![t] = <<t, sent[t] + 1>>]
    /\ qpc' = [qpc EXCEPT ![t] = "push_sem"]
    /\ UNCHANGED <<q, pushed, popped, rwVars, srvVars, mainVars, putVars>>

\* sem_wait(&q->wr_sem)
queue_push_sem_wait(t) ==
    /\ qpc[t] = "push_sem"
    /\ q.wr_sem > 0
    /\ q' = [q EXCEPT !.wr_sem = @ - 1]
    /\ qpc' = [qpc EXCEPT ![t] = "push_lock"]
    /\ UNCHANGED <<elem, sent, pushed, popped, rwVars, srvVars, mainVars, putVars>>

\* pthread_mutex_lock(&q->wr_lock)
queue_push_lock(t) ==
    /\ qpc[t] = "push_lock"
    /\ q.wr_lock = NoThread
    /\ q' = [q EXCEPT !.wr_lock = t]
    /\ qpc' = [qpc EXCEPT ![t] = "push_write"]
    /\ UNCHANGED <<elem, sent, pushed, popped, rwVars, srvVars, mainVars, putVars>>

\* q->buf[q->head++] = elem; q->head %= q->size;
queue_push_write(t) ==
    /\ qpc[t] = "push_write"
    /\ q' = [q EXCEPT !.buf[q.head] = elem[t], !.head = (q.head + 1) % q.size]
    /\ pushed' = Append(pushed, elem[t])
    /\ qpc' = [qpc EXCEPT ![t] = "push_unlock"]
    /\ UNCHANGED <<elem, sent, popped, rwVars, srvVars, mainVars, putVars>>

\* pthread_mutex_unlock(&q->wr_lock)
queue_push_unlock(t) ==
    /\ qpc[t] = "push_unlock"
    /\ q' = [q EXCEPT !.wr_lock = NoThread]
    /\ qpc' = [qpc EXCEPT ![t] = "push_post"]
    /\ UNCHANGED <<elem, sent, pushed, popped, rwVars, srvVars, mainVars, putVars>>

\* mutant of queue_push_post: the producer returns without sem_post(&q->rd_sem)
queue_push_post_lost(t) ==
    /\ qpc[t] = "push_post"
    /\ qpc' = [qpc EXCEPT ![t] = "idle"]
    /\ UNCHANGED <<q, elem, sent, pushed, popped, rwVars, srvVars, mainVars, putVars>>

\* sem_post(&q->rd_sem); return true
queue_push_post(t) ==
    /\ qpc[t] = "push_post"
    /\ q' = [q EXCEPT !.rd_sem = @ + 1]
    /\ qpc' = [qpc EXCEPT ![t] = "idle"]
    /\ UNCHANGED <<elem, sent, pushed, popped, rwVars, srvVars, mainVars, putVars>>

\* a consumer calls queue_pop
consumer_call(t) ==
    /\ t \in Consumers /\ qpc[t] = "idle"
    /\ qpc' = [qpc EXCEPT ![t] = "pop_sem"]
    /\ UNCHANGED <<q, elem, sent, pushed, popped, rwVars, srvVars, mainVars, putVars>>

\* mutant of queue_pop_sem_wait: the consumer does not wait for a filled slot
queue_pop_sem_nowait(t) ==
    /\ qpc[t] = "pop_sem"
    /\ q' = [q EXCEPT !.rd_sem = @ - 1]
    /\ qpc' = [qpc EXCEPT ![t] = "pop_lock"]
    /\ UNCHANGED <<elem, sent, pushed, popped, rwVars, srvVars, mainVars, putVars>>

\* sem_wait(&q->rd_sem)
queue_pop_sem_wait(t) ==
    /\ qpc[t] = "pop_sem"
    /\ q.rd_sem > 0
    /\ q' = [q EXCEPT !.rd_sem = @ - 1]
    /\ qpc' = [qpc EXCEPT ![t] = "pop_lock"]
    /\ UNCHANGED <<elem, sent, pushed, popped, rwVars, srvVars, mainVars, putVars>>

\* pthread_mutex_lock(&q->rd_lock)
queue_pop_lock(t) ==
    /\ qpc[t] = "pop_lock"
    /\ q.rd_lock = NoThread
    /\ q' = [q EXCEPT !.rd_lock = t]
    /\ qpc' = [qpc EXCEPT ![t] = "pop_read"]
    /\ UNCHANGED <<elem, sent, pushed, popped, rwVars, srvVars, mainVars, putVars>>

\* *elem = q->buf[q->tail++]; q->tail %= q->size;
\* (a slot that was never written holds an indeterminate value)
queue_pop_read(t) ==
    /\ qpc[t] = "pop_read"
    /\ \E e \in (IF q.buf[q.tail] = Uninit THEN Items \cup {Uninit} ELSE {q.buf[q.tail]}) :
          /\ elem' = [elem EXCEPT ![t] = e]
          /\ popped' = Append(popped, e)
    /\ q' = [q EXCEPT !.tail = (q.tail + 1) % q.size]
    /\ qpc' = [qpc EXCEPT ![t] = "pop_unlock"]
    /\ UNCHANGED <<sent, pushed, rwVars, srvVars, mainVars, putVars>>

\* pthread_mutex_unlock(&q->rd_lock)
queue_pop_unlock(t) ==
    /\ qpc[t] = "pop_unlock"
    /\ q' = [q EXCEPT !.rd_lock = NoThread]
    /\ qpc' = [qpc EXCEPT ![t] = "pop_post"]
    /\ UNCHANGED <<elem, sent, pushed, popped, rwVars, srvVars, mainVars, putVars>>

\* sem_post(&q->wr_sem); return true
queue_pop_post(t) ==
    /\ qpc[t] = "pop_post"
    /\ q' = [q EXCEPT !.wr_sem = @ + 1]
    /\ qpc' = [qpc EXCEPT ![t] = "idle"]
    /\ UNCHANGED <<elem, sent, pushed, popped, rwVars, srvVars, mainVars, putVars>>

InitQ ==
    /\ \E size \in 1..MaxSize : q = queue_new(size)
    /\ qpc = [t \in Producers \cup Consumers |-> "idle"]
    /\ elem = [t \in Producers \cup Consumers |-> Uninit]
    /\ sent = [t \in Producers |-> 0]
    /\ pushed = << >>
    /\ popped = << >>
    /\ LocksUnused
    /\ ServerUnused
    /\ MainUnused
    /\ PutUnused

NextQ ==
    \/ \E t \in DOMAIN qpc : producer_call(t)
    \/ \E t \in DOMAIN qpc : queue_push_sem_wait(t)
    \/ \E t \in DOMAIN qpc : queue_push_lock(t)
    \/ \E t \in DOMAIN qpc : queue_push_write(t)
    \/ \E t \in DOMAIN qpc : queue_push_unlock(t)
    \/ \E t \in DOMAIN qpc : queue_push_post(t)
    \/ \E t \in DOMAIN qpc : consumer_call(t)
    \/ \E t \in DOMAIN qpc : queue_pop_sem_wait(t)
    \/ \E t \in DOMAIN qpc : queue_pop_lock(t)
    \/ \E t \in DOMAIN qpc : queue_pop_read(t)
    \/ \E t \in DOMAIN qpc : queue_pop_unlock(t)
    \/ \E t \in DOMAIN qpc : queue_pop_post(t)

SpecQ == InitQ /\ [][NextQ]_vars

\* ------------------------------------------------- properties of the queue
\* number of elements written to the buffer and not yet read from it
QCount == Len(pushed) - Len(popped)
\* the elements stored in the circular buffer, oldest first
QStored == [i \in 1..QCount |-> q.buf[(q.tail + i - 1) % q.size]]

\* C5: under any interleaving of producers and consumers no element is lost,
\* duplicated or invented, and elements are dequeued in the order they were
\* enqueued: the popped elements followed by the stored ones are exactly the
\* pushed ones, and a producer's elements are popped in submission order.
C5_QueueFifo ==
    /\ QCount >= 0
    /\ QCount <= q.size
    /\ pushed = popped \o QStored
    /\ \A i, j \in 1..Len(popped) :
          (i < j /\ popped[i][1] = popped[j][1]) => popped[i][2] < popped[j][2]

\* both producers' elements were popped, interleaved, with the buffer wrapped around
C5_Witness ==
    /\ Len(popped) = NumProducers * MaxItems
    /\ popped[1][1] # popped[2][1]
    /\ \E t1, t2 \in Consumers : t1 # t2 /\ elem[t1] # Uninit /\ elem[t2] # Uninit

\* C6: the number of stored elements is in 0..capacity, head and tail stay in
\* [0, capacity), a push writes only a slot that holds no unpopped element and a
\* pop reads only a slot that holds one.
C6_QueueBounds ==
    /\ QCount \in 0..q.size
    /\ q.head \in 0..(q.size - 1)
    /\ q.tail \in 0..(q.size - 1)
    /\ q.head = (q.tail + QCount) % q.size
    /\ \A t \in DOMAIN qpc : qpc[t] = "push_write" => QCount < q.size
    /\ \A t \in DOMAIN qpc : qpc[t] = "pop_read" => QCount > 0

\* a producer is blocked on the full queue and, in another state, a consumer on
\* the empty one: here the full case, every slot holding an unpopped element
C6_Witness ==
    /\ QCount = q.size
    /\ \E t \in Producers : qpc[t] = "push_sem" /\ q.wr_sem = 0
    /\ Len(popped) > 0

\* ------------------------------------------------------------- httpserver.c
\* the URIs requests name; NullName is file_locks[i].filename == NULL
URIs == {"a", "b"}
NullName == "NULL"
\* files[u] when open(u) fails with ENOENT; the content of a file is the number
\* of the PUT request that wrote it
NoFile == 0

\* what a worker can pop from the queue: a request that does not parse, one
\* without a Request-Id header, one with an unsupported method, GET and PUT
\* requests on each URI, the GET of the second URI being of another HTTP
\* version, and a PUT without a valid Content-Length; id is filled in by the pop
Requests ==
    { [parse_ok |-> FALSE, has_id |-> FALSE, method |-> "GET", uri |-> "a",
       version |-> "1.1", len_ok |-> TRUE, id |-> 0],
      [parse_ok |-> TRUE,  has_id |-> FALSE, method |-> "GET", uri |-> "a",
       version |-> "1.1", len_ok |-> TRUE, id |-> 0],
      [parse_ok |-> TRUE,  has_id |-> FALSE, method |-> "PUT", uri |-> "a",
       version |-> "1.1", len_ok |-> TRUE, id |-> 0],
      [parse_ok |-> TRUE,  has_id |-> TRUE,  method |-> "UNSUPPORTED", uri |-> "a",
       version |-> "1.1", len_ok |-> TRUE, id |-> 0],
      [parse_ok |-> TRUE,  has_id |-> TRUE,  method |-> "PUT", uri |-> "a",
       version |-> "1.1", len_ok |-> FALSE, id |-> 0] }
    \cup { [parse_ok |-> TRUE, has_id |-> TRUE, method |-> "PUT", uri |-> u,
            version |-> "1.1", len_ok |-> TRUE, id |-> 0] : u \in URIs }
    \cup { [parse_ok |-> TRUE, has_id |-> TRUE, method |-> "GET", uri |-> "a",
            version |-> "1.1", len_ok |-> TRUE, id |-> 0],
           [parse_ok |-> TRUE, has_id |-> TRUE, method |-> "GET", uri |-> "b",
            version |-> "0.9", len_ok |-> TRUE, id |-> 0] }
NoRequest ==
    [parse_ok |-> FALSE, has_id |-> FALSE, method |-> "NONE", uri |-> NullName,
     version |-> "1.1", len_ok |-> TRUE, id |-> 0]

\* RESPONSE_UNSENT(code) and RESPONSE_SENT(code)
RESPONSE_UNSENT(code) == [responded |-> FALSE, status |-> code]
RESPONSE_SENT(code) == [responded |-> TRUE, status |-> code]

\* an entry of the history: kind is "fs" (the handler's file access), "audit"
\* (the audit line), "resp" (a response written to the client, by the handler
\* or by the dispatcher) or "close" (req_close and req_free by the worker); body
\* is the content a GET streamed
Event(kind, t, status, by, body) ==
    [kind |-> kind, id |-> req[t].id, op |-> req[t].method, uri |-> req[t].uri,
     slot |-> lk[t], status |-> status, by |-> by, body |-> body]

\* mutant of registry_slots: the registry has one slot less than thread_count
registry_slots_one_less(T) == 0..(T - 2)
\* main: the file_locks array has thread_count slots
registry_slots(T) == 0..(T - 1)

\* mutant of find_file_lock_scan: the first slot is returned whatever it holds
find_file_lock_scan_first(fl, URI) == 0

\* the scan of find_file_lock: the first slot that is unused or whose filename
\* equals URI, in index order; -1 when the loop ends without a return
find_file_lock_scan(fl, URI) ==
    LET hits == { i \in DOMAIN fl : fl[i].filename = NullName \/ fl[i].filename = URI }
    IN  IF hits = {} THEN -1
        ELSE CHOOSE i \in hits : \A j \in hits : i <= j

\* worker_thread: queue_pop hands the worker the next accepted connection
worker_thread_pop(t) ==
    /\ pc[t] = "pop"
    /\ next_id < MaxRequests
    /\ next_id' = next_id + 1
    /\ \E r \in Requests : req' = [req EXCEPT ![t] = [r EXCEPT !.id = next_id + 1]]
    /\ pc' = [pc EXCEPT ![t] = "handle"]
    /\ UNCHANGED <<rw, lk, passed_since, writers_ahead, file_locks, file_locks_mutex,
                   response, files, events, qVars, mainVars, putVars, window>>

\* mutant of handle_connection: the Request-Id header is not looked at
handle_connection_any_id(t) ==
    /\ pc[t] = "handle"
    /\ IF ~req[t].parse_ok
       THEN /\ response' = [response EXCEPT ![t] = RESPONSE_UNSENT(400)]
            /\ pc' = [pc EXCEPT ![t] = "respond"]
       ELSE IF req[t].method \in {"GET", "PUT"}
       THEN /\ pc' = [pc EXCEPT ![t] = "ffl_mutex"]
            /\ UNCHANGED response
       ELSE /\ response' = [response EXCEPT ![t] = RESPONSE_UNSENT(501)]
            /\ pc' = [pc EXCEPT ![t] = "respond"]
    /\ UNCHANGED <<rw, lk, passed_since, writers_ahead, file_locks, file_locks_mutex,
                   req, files, next_id, events, qVars, mainVars, putVars, window>>

\* handle_connection up to the switch on the method
handle_connection(t) ==
    /\ pc[t] = "handle"
    /\ IF ~req[t].parse_ok
       THEN /\ response' = [response EXCEPT ![t] = RESPONSE_UNSENT(400)]
            /\ pc' = [pc EXCEPT ![t] = "respond"]
       ELSE IF ~req[t].has_id
       THEN /\ response' = [response EXCEPT ![t] = RESPONSE_UNSENT(400)]
            /\ pc' = [pc EXCEPT ![t] = "respond"]
       ELSE IF req[t].method \in {"GET", "PUT"}
       THEN /\ pc' = [pc EXCEPT ![t] = "ffl_mutex"]
            /\ UNCHANGED response
       ELSE /\ response' = [response EXCEPT ![t] = RESPONSE_UNSENT(501)]
            /\ pc' = [pc EXCEPT ![t] = "respond"]
    /\ UNCHANGED <<rw, lk, passed_since, writers_ahead, file_locks, file_locks_mutex,
                   req, files, next_id, events, qVars, mainVars, putVars, window>>

\* find_file_lock: pthread_mutex_lock(&file_locks_mutex) and the scan
find_file_lock_mutex(t) ==
    LET i == find_file_lock_scan(file_locks, req[t].uri) IN
    /\ pc[t] = "ffl_mutex"
    /\ file_locks_mutex = NoThread
    /\ file_locks_mutex' = t
    /\ IF i = -1
       THEN /\ pc' = [pc EXCEPT ![t] = "ffl_unlock_null"]
            /\ UNCHANGED <<file_locks, lk>>
       ELSE /\ pc' = [pc EXCEPT ![t] = "ffl_unlock"]
            /\ lk' = [lk EXCEPT ![t] = i]
            /\ file_locks' = [file_locks EXCEPT ![i] =
                  IF file_locks[i].filename = NullName
                  THEN [filename |-> req[t].uri, users |-> 1]
                  ELSE [filename |-> @.filename, users |-> @.users + 1]]
    /\ UNCHANGED <<rw, passed_since, writers_ahead, req, response, files, next_id,
                   events, qVars, mainVars, putVars, window>>

\* find_file_lock: pthread_mutex_unlock(&file_locks_mutex) and return; the
\* caller then calls reader_lock (GET) or writer_lock (PUT) on the entry's lock
find_file_lock_unlock(t) ==
    /\ pc[t] \in {"ffl_unlock", "ffl_unlock_null"}
    /\ file_locks_mutex' = NoThread
    /\ pc' = [pc EXCEPT ![t] =
                IF pc[t] = "ffl_unlock_null" THEN "null_dereference"
                ELSE IF req[t].method = "GET" THEN "call_reader_lock"
                ELSE "call_writer_lock"]
    /\ UNCHANGED <<rw, lk, passed_since, writers_ahead, file_locks, req, response,
                   files, next_id, events, qVars, mainVars, putVars, window>>

\* handle_get: open fails with ENOENT (404, nothing sent), or the status line,
\* Content-Length and the file are streamed to the client (200, sent)
handle_get(t) ==
    LET u == req[t].uri IN
    /\ pc[t] = "rd_held"
    /\ IF files[u] = NoFile
       THEN /\ response' = [response EXCEPT ![t] = RESPONSE_UNSENT(404)]
            /\ events' = Append(events, Event("fs", t, 404, "handler", NoFile))
       ELSE /\ response' = [response EXCEPT ![t] = RESPONSE_SENT(200)]
            /\ events' = events \o << Event("fs", t, 200, "handler", files[u]),
                                      Event("resp", t, 200, "handler", files[u]) >>
    /\ pc' = [pc EXCEPT ![t] = "rd_audit"]
    /\ UNCHANGED <<rw, lk, passed_since, writers_ahead, file_locks, file_locks_mutex,
                   req, files, next_id, qVars, mainVars, putVars, window>>

\* mutant of handle_put_res: every PUT answers 201
handle_put_res_created(content) == 201
\* handle_put: res is 200 when open(URI, O_WRONLY | O_TRUNC) succeeds and 201
\* when it fails with ENOENT and the file is created
handle_put_res(content) == IF content = NoFile THEN 201 ELSE 200

\* handle_put: 400 without a valid Content-Length; else the file is truncated
\* (200) or created (201) and receives the body; nothing is sent
handle_put(t) ==
    LET u == req[t].uri
        res == handle_put_res(files[u]) IN
    /\ pc[t] = "wr_held"
    /\ IF ~req[t].len_ok
       THEN /\ response' = [response EXCEPT ![t] = RESPONSE_UNSENT(400)]
            /\ UNCHANGED <<files, events>>
       ELSE /\ response' = [response EXCEPT ![t] = RESPONSE_UNSENT(res)]
            /\ files' = [files EXCEPT ![u] = req[t].id]
            /\ events' = Append(events, Event("fs", t, res, "handler", req[t].id))
    /\ pc' = [pc EXCEPT ![t] = "wr_audit"]
    /\ UNCHANGED <<rw, lk, passed_since, writers_ahead, file_locks, file_locks_mutex,
                   req, next_id, qVars, mainVars, putVars, window>>

\* write_audit_log, then the call of reader_unlock / writer_unlock
write_audit_log(t) ==
    /\ pc[t] \in {"rd_audit", "wr_audit"}
    /\ events' = Append(events, Event("audit", t, response[t].status, "handler", NoFile))
    /\ pc' = [pc EXCEPT ![t] = IF pc[t] = "rd_audit" THEN "call_reader_unlock"
                                                     ELSE "call_writer_unlock"]
    /\ UNCHANGED <<rw, lk, passed_since, writers_ahead, file_locks, file_locks_mutex,
                   req, response, files, next_id, qVars, mainVars, putVars, window>>

\* mutant of release_file_lock_mutex: the name is kept when users reaches 0
release_file_lock_keep_name(t) ==
    LET i == lk[t] IN
    /\ pc[t] = "unlocked"
    /\ file_locks_mutex = NoThread
    /\ file_locks_mutex' = t
    /\ file_locks' = [file_locks EXCEPT ![i] =
                         [filename |-> @.filename, users |-> @.users - 1]]
    /\ pc' = [pc EXCEPT ![t] = "rfl_unlock"]
    /\ UNCHANGED <<rw, lk, passed_since, writers_ahead, req, response, files, next_id,
                   events, qVars, mainVars, putVars, window>>

\* release_file_lock: lock the mutex, --users, free the name at 0
release_file_lock_mutex(t) ==
    LET i == lk[t] IN
    /\ pc[t] = "unlocked"
    /\ file_locks_mutex = NoThread
    /\ file_locks_mutex' = t
    /\ file_locks' = [file_locks EXCEPT ![i] =
          IF @.users - 1 = 0
          THEN [filename |-> NullName, users |-> 0]
          ELSE [filename |-> @.filename, users |-> @.users - 1]]
    /\ pc' = [pc EXCEPT ![t] = "rfl_unlock"]
    /\ UNCHANGED <<rw, lk, passed_since, writers_ahead, req, response, files, next_id,
                   events, qVars, mainVars, putVars, window>>

release_file_lock_unlock(t) ==
    /\ pc[t] = "rfl_unlock"
    /\ file_locks_mutex' = NoThread
    /\ pc' = [pc EXCEPT ![t] = "respond"]
    /\ UNCHANGED <<rw, lk, passed_since, writers_ahead, file_locks, req, response,
                   files, next_id, events, qVars, mainVars, putVars, window>>

\* mutant of worker_thread_respond: the canned response is written in every case
worker_thread_respond_always(t) ==
    /\ pc[t] = "respond"
    /\ events' = events \o << Event("resp", t, response[t].status, "dispatcher", NoFile),
                              Event("close", t, response[t].status, "worker", NoFile) >>
    /\ pc' = [pc EXCEPT ![t] = "pop"]
    /\ req' = [req EXCEPT ![t] = NoRequest]
    /\ response' = [response EXCEPT ![t] = RESPONSE_UNSENT(0)]
    /\ UNCHANGED <<rw, lk, passed_since, writers_ahead, file_locks, file_locks_mutex,
                   files, next_id, qVars, mainVars, putVars, window>>

\* worker_thread: respond unless the handler did, req_close, req_free, loop
worker_thread_respond(t) ==
    /\ pc[t] = "respond"
    /\ events' = events
                  \o (IF ~response[t].responded
                      THEN << Event("resp", t, response[t].status, "dispatcher", NoFile) >>
                      ELSE << >>)
                  \o << Event("close", t, response[t].status, "worker", NoFile) >>
    /\ pc' = [pc EXCEPT ![t] = "pop"]
    /\ req' = [req EXCEPT ![t] = NoRequest]
    /\ response' = [response EXCEPT ![t] = RESPONSE_UNSENT(0)]
    /\ UNCHANGED <<rw, lk, passed_since, writers_ahead, file_locks, file_locks_mutex,
                   files, next_id, qVars, mainVars, putVars, window>>

\* main: thread_count workers, one registry slot each with an N_WAY lock, N = 1,
\* an empty served directory
InitSrv ==
    /\ \E T \in 1..NumWorkers :
          /\ rw = [l \in registry_slots(T) |-> rwlock_new("N_WAY", 1)]
          /\ file_locks = [i \in registry_slots(T) |-> [filename |-> NullName, users |-> 0]]
          /\ pc = [t \in 1..T |-> "pop"]
          /\ lk = [t \in 1..T |-> 0]
          /\ passed_since = [t \in 1..T |-> 0]
          /\ writers_ahead = [t \in 1..T |-> {}]
          /\ req = [t \in 1..T |-> NoRequest]
          /\ response = [t \in 1..T |-> RESPONSE_UNSENT(0)]
    /\ file_locks_mutex = NoThread
    /\ files = [u \in URIs |-> NoFile]
    /\ next_id = 0
    /\ events = << >>
    /\ window = << >>
    /\ QueueUnused
    /\ MainUnused
    /\ PutUnused

NextSrv ==
    \/ \E t \in Threads : worker_thread_pop(t)
    \/ \E t \in Threads : handle_connection(t)
    \/ \E t \in Threads : find_file_lock_mutex(t)
    \/ \E t \in Threads : find_file_lock_unlock(t)
    \/ \E t \in Threads : handle_get(t)
    \/ \E t \in Threads : handle_put(t)
    \/ \E t \in Threads : write_audit_log(t)
    \/ \E t \in Threads : release_file_lock_mutex(t)
    \/ \E t \in Threads : release_file_lock_unlock(t)
    \/ \E t \in Threads : worker_thread_respond(t)
    \/ \E t \in Threads : reader_lock(t)
    \/ \E t \in Threads : reader_unlock(t)
    \/ \E t \in Threads : writer_lock(t)
    \/ \E t \in Threads : writer_unlock(t)
    \/ \E t \in Threads : spurious_wakeup(t)
    \/ \E t \in Threads : nway_priority_rd_lock_mutex(t)
    \/ \E t \in Threads : nway_priority_rd_lock_while(t)
    \/ \E t \in Threads : nway_priority_rd_lock_wake(t)
    \/ \E t \in Threads : nway_priority_rd_lock_sem(t)
    \/ \E t \in Threads : nway_priority_rd_lock_unlock(t)
    \/ \E t \in Threads : nway_priority_rd_unlock_mutex(t)
    \/ \E t \in Threads : nway_priority_rd_unlock_post(t)
    \/ \E t \in Threads : nway_priority_rd_unlock_unlock(t)
    \/ \E t \in Threads : nway_priority_wr_lock_mutex(t)
    \/ \E t \in Threads : nway_priority_wr_lock_while(t)
    \/ \E t \in Threads : nway_priority_wr_lock_wake(t)
    \/ \E t \in Threads : nway_priority_wr_lock_sem(t)
    \/ \E t \in Threads : nway_priority_wr_unlock_post(t)
    \/ \E t \in Threads : nway_priority_wr_unlock_mutex(t)
    \/ \E t \in Threads : nway_priority_wr_unlock_unlock(t)

SpecSrv == InitSrv /\ [][NextSrv]_vars

\* ------------------------------------------------- properties of the server
\* the worker is executing handle_put / handle_get for URI u
PutRunning(t, u) == pc[t] = "wr_held" /\ req[t].uri = u
GetRunning(t, u) == pc[t] = "rd_held" /\ req[t].uri = u

\* positions of the history entries of one kind, responses written for request id
EvIdx(kind) == { i \in 1..Len(events) : events[i].kind = kind }
RespOf(id) == { i \in EvIdx("resp") : events[i].id = id }
\* content written by the latest PUT on URI u before position k of the history
LastPut(u, k) ==
    LET puts == { i \in EvIdx("fs") : i < k /\ events[i].uri = u /\ events[i].op = "PUT" }
    IN  IF puts = {} THEN NoFile
        ELSE events[CHOOSE i \in puts : \A j \in puts : j <= i].id
\* the worker is inside a lock operation or holds the lock of its entry
InLockOp(t) ==
    pc[t] \notin {"pop", "handle", "ffl_mutex", "ffl_unlock", "ffl_unlock_null",
                  "null_dereference", "unlocked", "rfl_unlock", "respond"}

\* C3: a PUT handler on a URI never runs concurrently with another PUT handler
\* or a GET handler on the same URI.
C3_PutExclusivePerUri ==
    \A u \in URIs : \A t1, t2 \in Threads :
        (t1 # t2 /\ PutRunning(t1, u)) => ~ (PutRunning(t2, u) \/ GetRunning(t2, u))

\* C4: no two distinct registry slots hold the same path at the same time
\* (every acquire of a URI in use returns the entry already holding it).
C4_RegistryInterning ==
    \A i, j \in DOMAIN file_locks :
        (i # j /\ file_locks[i].filename # NullName)
            => file_locks[i].filename # file_locks[j].filename

\* C12: for two conflicting requests (at least one PUT) on the same URI, the
\* audit lines are written in the order in which the handlers accessed the file.
C12_AuditOrder ==
    \A i, j \in EvIdx("fs") :
        ( /\ i < j
          /\ events[i].uri = events[j].uri
          /\ events[i].id # events[j].id
          /\ "PUT" \in {events[i].op, events[j].op} )
        => \A a, b \in EvIdx("audit") :
              (events[a].id = events[i].id /\ events[b].id = events[j].id) => a < b

\* C13: for two requests on the same URI serialized by its lock (conflicting
\* requests that held the lock of the same entry) in the order R1 then R2, the
\* response of R1 is written before the response of R2.
C13_ResponseOrder ==
    \A i, j \in EvIdx("fs") :
        ( /\ i < j
          /\ events[i].uri = events[j].uri
          /\ events[i].slot = events[j].slot
          /\ events[i].id # events[j].id
          /\ "PUT" \in {events[i].op, events[j].op} )
        => \A a, b \in EvIdx("resp") :
              (events[a].id = events[i].id /\ events[b].id = events[j].id) => a < b

\* C14: for every slot, users > 0 exactly when the filename is set, and users is
\* never negative (a release to 0 clears the name in the same step).
C14_RefcountIffPath ==
    \A i \in DOMAIN file_locks :
        /\ file_locks[i].users >= 0
        /\ file_locks[i].users > 0 <=> file_locks[i].filename # NullName

\* a release has just brought a slot to users = 0 while the other slot has two users
C14_Witness ==
    \E t \in Threads : \E j \in DOMAIN file_locks :
        /\ pc[t] = "rfl_unlock"
        /\ file_locks[lk[t]].users = 0 /\ file_locks[lk[t]].filename = NullName
        /\ j # lk[t] /\ file_locks[j].users = 1

\* C15: the lock of a slot without a filename is idle: no thread is inside one
\* of its operations or holds it, the gate is available, the mutex free, the
\* counters 0 and nobody waits on its conditions.
C15_FreeSlotLockIdle ==
    \A i \in DOMAIN file_locks :
        file_locks[i].filename = NullName =>
            /\ \A t \in Threads : InLockOp(t) => lk[t] # i
            /\ rw[i].write_lock = 1
            /\ rw[i].mutex = NoThread
            /\ rw[i].readers_holding = 0
            /\ rw[i].readers_waiting = 0
            /\ rw[i].writers_waiting = 0
            /\ rw[i].rd_cond = {} /\ rw[i].wr_cond = {}

\* a slot is free again after a reader and a writer have used its lock
C15_Witness ==
    \E i \in DOMAIN file_locks :
        /\ file_locks[i].filename = NullName
        /\ \E a, b \in EvIdx("fs") :
              /\ events[a].slot = i /\ events[b].slot = i
              /\ events[a].op = "GET" /\ events[b].op = "PUT"

\* C16: find_file_lock never returns NULL: with thread_count slots and
\* thread_count workers holding at most one entry each, its scan always finds a
\* free or matching slot.
C16_FindNeverFails ==
    \A t \in Threads : pc[t] \notin {"ffl_unlock_null", "null_dereference"}

\* a worker has just claimed the last free slot, every other slot being in use
\* for another URI
C16_Witness ==
    \E t \in Threads :
        /\ pc[t] = "ffl_unlock"
        /\ Cardinality(DOMAIN file_locks) = NumWorkers
        /\ file_locks[lk[t]].users = 1
        /\ \A i \in DOMAIN file_locks :
              /\ file_locks[i].filename # NullName
              /\ i # lk[t] => file_locks[i].filename # file_locks[lk[t]].filename

\* C17: every dequeued request receives exactly one response: a request whose
\* handler reported sent = true has its response from the handler and none from
\* the dispatcher, every other one gets one canned response, with the returned
\* status, from the dispatcher.
C17_ExactlyOneResponse ==
    /\ \A id \in 1..next_id :
          /\ Cardinality(RespOf(id)) <= 1
          /\ (\A t \in Threads : req[t].id # id) => Cardinality(RespOf(id)) = 1
    /\ \A t \in Threads :
          pc[t] = "respond" =>
              /\ response[t].responded =>
                    \E i \in RespOf(req[t].id) : events[i].by = "handler"
              /\ ~response[t].responded => RespOf(req[t].id) = {}
    /\ \A i \in EvIdx("resp") :
          /\ events[i].by = "handler" => (events[i].op = "GET" /\ events[i].status = 200)
          /\ \A a \in EvIdx("audit") :
                events[a].id = events[i].id => events[a].status = events[i].status

\* a GET answered by its handler and a request answered by the dispatcher are
\* both finished
C17_Witness ==
    \E i, j \in EvIdx("resp") :
        /\ events[i].by = "handler" /\ events[j].by = "dispatcher"
        /\ events[j].status = 201
        /\ \A t \in Threads : req[t].id \notin {events[i].id, events[j].id}

\* C18: a well-formed GET or PUT with a Request-Id whose version is not 1.1 is
\* answered 505 and its handler is not executed.
C18_VersionNotSupported ==
    \A t \in Threads :
        ( /\ req[t].parse_ok /\ req[t].has_id
          /\ req[t].method \in {"GET", "PUT"}
          /\ req[t].version # "1.1" )
        => /\ pc[t] \in {"handle", "respond"}
           /\ pc[t] = "respond" => response[t] = RESPONSE_UNSENT(505)

\* C19: a parsed request without Request-Id goes from the dispatch straight to
\* the response, the step leaves the registry, the locks, the files and the
\* history (no audit line) unchanged, and the response written is a canned 400.
C19_MissingRequestId ==
    [][ \A t \in Threads :
          (req[t].parse_ok /\ ~req[t].has_id) =>
              /\ pc[t] \in {"handle", "respond"}
              /\ (pc[t] = "handle" /\ pc'[t] # "handle") =>
                    /\ pc'[t] = "respond"
                    /\ response'[t] = RESPONSE_UNSENT(400)
                    /\ UNCHANGED <<rw, lk, file_locks, file_locks_mutex, files, events>>
              /\ (pc[t] = "respond" /\ pc'[t] # "respond") =>
                    events' = events \o << Event("resp", t, 400, "dispatcher", NoFile),
                                            Event("close", t, 400, "worker", NoFile) >>
      ]_vars

\* a PUT without Request-Id is about to be answered 400 after an earlier PUT
\* created a file: the file is unchanged
C19_Witness ==
    \E t \in Threads :
        /\ req[t].parse_ok /\ ~req[t].has_id /\ req[t].method = "PUT"
        /\ pc[t] = "respond" /\ response[t] = RESPONSE_UNSENT(400)
        /\ files[req[t].uri] \notin {NoFile, req[t].id}

\* C20: with requests served one after the other (one worker): a PUT answers
\* 201 exactly when the file did not exist and 200 exactly when it did and
\* leaves its body as the content; a GET answers 404 exactly when the file does
\* not exist and else 200 with the content of the latest PUT, which is also
\* what the response carries.
C20_PutGetSequential ==
    Cardinality(Threads) = 1 =>
        /\ \A k \in EvIdx("fs") :
              LET e == events[k]
                  last == LastPut(e.uri, k)
              IN  /\ e.op = "PUT" =>
                        /\ e.status = 201 <=> last = NoFile
                        /\ e.status = 200 <=> last # NoFile
                        /\ e.body = e.id
                  /\ e.op = "GET" =>
                        /\ e.status = 404 <=> last = NoFile
                        /\ last # NoFile => (e.status = 200 /\ e.body = last)
                        /\ e.status \in {200, 404}
        /\ \A u \in URIs : files[u] = LastPut(u, Len(events) + 1)
        /\ \A i \in EvIdx("resp") :
              events[i].by = "handler" =>
                  /\ i > 1
                  /\ events[i - 1] = [events[i] EXCEPT !.kind = "fs"]

\* one worker served PUT (201), PUT (200), GET (200 with the second body)
C20_Witness ==
    /\ Cardinality(Threads) = 1
    /\ \E i, j, k \in EvIdx("fs") :
          /\ i < j /\ j < k
          /\ events[i].uri = events[j].uri /\ events[j].uri = events[k].uri
          /\ events[i].op = "PUT" /\ events[i].status = 201
          /\ events[j].op = "PUT" /\ events[j].status = 200
          /\ events[k].op = "GET" /\ events[k].status = 200
          /\ events[k].body = events[j].id

\* C28: while a worker executes a GET or PUT handler, no thread holds the
\* registry mutex or the internal mutex of a lock across that I/O: a thread that
\* is blocked until the handler's lock is released (at the write gate) holds
\* neither of them.
C28_NoMutexAcrossIO ==
    \A h, t \in Threads :
        ( /\ pc[h] \in {"rd_held", "wr_held"}
          /\ t # h /\ lk[t] = lk[h]
          /\ pc[t] \in {"rl_sem", "wl_sem"}
          /\ rw[lk[t]].write_lock = 0 )
        => /\ rw[lk[t]].mutex # t
           /\ file_locks_mutex # t

\* ------------------------------------------- the whole server, with shutdown
\* the main thread's id in qpc, elem and the queue's mutexes (workers are 1..T)
MainThread == NumWorkers + 1
\* the Request of a connection: the element queued is the pointer <<MainThread, id>>
ReqPtr(id) == <<MainThread, id>>

\* what the acceptor reads from an accepted connection: a well-formed GET or PUT
\* of one URI
AcceptedRequests ==
    { r \in Requests : /\ r.uri = "a" /\ r.len_ok /\ r.version = "1.1"
                       /\ r.has_id /\ r.parse_ok /\ r.method \in {"GET", "PUT"} }

\* --- main ---------------------------------------------------------------------
\* main: while (running), listener_accept returned a connection, req_create and
\* the call of queue_push
main_accept ==
    /\ main.pc = "accept" /\ qpc[MainThread] = "idle"
    /\ main.running /\ main.sock_open
    /\ next_id < MaxConns
    /\ next_id' = next_id + 1
    /\ \E r \in AcceptedRequests :
          main' = [main EXCEPT !.conns = @ @@ ((next_id + 1) :> [r EXCEPT !.id = next_id + 1])]
    /\ elem' = [elem EXCEPT ![MainThread] = ReqPtr(next_id + 1)]
    /\ qpc' = [qpc EXCEPT ![MainThread] = "push_sem"]
    /\ UNCHANGED <<rwVars, q, sent, pushed, popped, file_locks, file_locks_mutex,
                   req, response, files, events, putVars>>

\* signal_handler (SIGINT / SIGTERM), run by the main thread wherever it is in
\* the accept loop: close(sock.fd), pthread_cancel of every worker, running =
\* false. A sem_wait it interrupted is restarted when the handler returns.
signal_handler ==
    /\ main.pc = "accept" /\ ~main.signalled
    /\ main' = [main EXCEPT !.signalled = TRUE, !.sock_open = FALSE,
                            !.cancel = Threads, !.running = FALSE]
    /\ UNCHANGED <<rwVars, qVars, srvVars, putVars>>

\* main: listener_accept fails on the closed socket and while (running) ends
main_loop_exit ==
    /\ main.pc = "accept" /\ qpc[MainThread] = "idle"
    /\ ~main.running
    /\ main' = [main EXCEPT !.pc = "join", !.i = 0]
    /\ UNCHANGED <<rwVars, qVars, srvVars, putVars>>

\* main: pthread_join(threads_arr[i], NULL) returns once worker i + 1 has terminated
main_join ==
    /\ main.pc = "join"
    /\ pc[main.i + 1] = "terminated"
    /\ main' = [main EXCEPT !.pc = "delete", !.joined = @ \cup {main.i + 1}]
    /\ UNCHANGED <<rwVars, qVars, srvVars, putVars>>

\* main: rwlock_delete(&file_locks[i].lock) and the next round of the loop
main_rwlock_delete ==
    /\ main.pc = "delete"
    /\ main' = [main EXCEPT !.deleted = @ \cup {main.i},
                            !.i = @ + 1,
                            !.pc = IF main.i + 1 < Cardinality(Threads)
                                   THEN "join" ELSE "queue_delete"]
    /\ UNCHANGED <<rwVars, qVars, srvVars, putVars>>

\* main: queue_delete(&queue), seb_http_regex_cleanup, return 0
main_queue_delete ==
    /\ main.pc = "queue_delete"
    /\ main' = [main EXCEPT !.queue_deleted = TRUE, !.pc = "done"]
    /\ UNCHANGED <<rwVars, qVars, srvVars, putVars>>

\* --- workers ------------------------------------------------------------------
\* worker_thread: the call of queue_pop
worker_thread_queue_pop(t) ==
    /\ pc[t] = "pop" /\ qpc[t] = "idle"
    /\ pc' = [pc EXCEPT ![t] = "popping"]
    /\ qpc' = [qpc EXCEPT ![t] = "pop_sem"]
    /\ UNCHANGED <<rw, lk, passed_since, writers_ahead, window, q, elem, sent, pushed,
                   popped, srvVars, mainVars, putVars>>

\* worker_thread: queue_pop returned, req is the Request popped
worker_thread_popped(t) ==
    /\ pc[t] = "popping" /\ qpc[t] = "idle"
    /\ req' = [req EXCEPT ![t] = main.conns[elem[t][2]]]
    /\ pc' = [pc EXCEPT ![t] = "handle"]
    /\ UNCHANGED <<rw, lk, passed_since, writers_ahead, window, qVars, file_locks,
                   file_locks_mutex, response, files, next_id, events, mainVars, putVars>>

\* the worker is about to enter, or is blocked in, a cancellation point: sem_wait,
\* pthread_cond_wait, or the read / write / open / close / fprintf of req_parse,
\* the handlers, the audit log, respond and req_close (pthread_mutex_lock is not one)
AtCancellationPoint(t) ==
    \/ qpc[t] = "pop_sem"
    \/ pc[t] \in {"handle", "rl_wait", "rl_sem", "wl_wait", "wl_sem",
                  "rd_held", "wr_held", "rd_audit", "wr_audit", "respond"}

\* a cancellation request is pending for the worker and it acts on it now
CancelNow(t) == t \in main.cancel /\ AtCancellationPoint(t)

\* the worker acts on the cancellation request: no cleanup handler is installed,
\* so the thread ends where it is; out of pthread_cond_wait it ends after
\* re-acquiring the mutex
pthread_cancel(t) ==
    /\ CancelNow(t)
    /\ IF pc[t] \in {"rl_wait", "wl_wait"}
       THEN /\ rw[lk[t]].mutex = NoThread
            /\ rw' = [rw EXCEPT ![lk[t]].mutex = t,
                                ![lk[t]].rd_cond = @ \ {t}, ![lk[t]].wr_cond = @ \ {t}]
       ELSE UNCHANGED rw
    /\ pc' = [pc EXCEPT ![t] = "terminated"]
    /\ qpc' = [qpc EXCEPT ![t] = "terminated"]
    /\ UNCHANGED <<lk, passed_since, writers_ahead, window, q, elem, sent, pushed,
                   popped, srvVars, mainVars, putVars>>

\* the worker is inside a lock operation, or holds the lock, of a slot whose
\* lock main has freed
OnDeletedLock(t) == InLockOp(t) /\ pc[t] # "terminated" /\ pc[t] # "popping"
                    /\ lk[t] \in main.deleted

\* an access to the freed rwlock_t: undefined behaviour; apart from going on as
\* if the memory were intact (the ordinary steps), the thread may fault
use_after_free(t) ==
    /\ OnDeletedLock(t) /\ ~CancelNow(t)
    /\ pc[t] \notin {"rd_held", "wr_held", "rd_audit", "wr_audit"}
    /\ pc' = [pc EXCEPT ![t] = "undefined_behaviour"]
    /\ UNCHANGED <<rw, lk, passed_since, writers_ahead, window, qVars, srvVars, mainVars, putVars>>

\* main in its accept loop with every worker idle: queue_new(threads),
\* thread_count workers about to call queue_pop, one registry slot each with an
\* N_WAY lock, N = 1; the locks are idle as rwlock_new made them, or as earlier
\* GETs left them (readers_passed is reset only by writer_unlock)
InitMain ==
    /\ \E T \in 1..NumWorkers : \E passed \in 0..1 :
          /\ rw = [l \in registry_slots(T) |->
                     [rwlock_new("N_WAY", 1) EXCEPT !.readers_passed = passed]]
          /\ file_locks = [i \in registry_slots(T) |-> [filename |-> NullName, users |-> 0]]
          /\ pc = [t \in 1..T |-> "pop"]
          /\ lk = [t \in 1..T |-> 0]
          /\ passed_since = [t \in 1..T |-> 0]
          /\ writers_ahead = [t \in 1..T |-> {}]
          /\ req = [t \in 1..T |-> NoRequest]
          /\ response = [t \in 1..T |-> RESPONSE_UNSENT(0)]
          /\ q = queue_new(T)
          /\ qpc = [t \in (1..T) \cup {MainThread} |-> "idle"]
          /\ elem = [t \in (1..T) \cup {MainThread} |-> Uninit]
    /\ sent = << >>
    /\ pushed = << >>
    /\ popped = << >>
    /\ window = << >>
    /\ PutUnused
    /\ file_locks_mutex = NoThread
    /\ files = [u \in URIs |-> NoFile]
    /\ next_id = 0
    /\ events = << >>
    /\ main = [pc |-> "accept", running |-> TRUE, sock_open |-> TRUE, signalled |-> FALSE,
               cancel |-> {}, i |-> 0, joined |-> {}, deleted |-> {},
               queue_deleted |-> FALSE, conns |-> << >>]

\* the steps of the main thread, the signal apart
MainStep ==
    \/ main_accept
    \/ main_loop_exit
    \/ main_join
    \/ main_rwlock_delete
    \/ main_queue_delete
    \/ queue_push_sem_wait(MainThread)
    \/ queue_push_lock(MainThread)
    \/ queue_push_write(MainThread)
    \/ queue_push_unlock(MainThread)
    \/ queue_push_post(MainThread)

\* the steps of worker t: none while it acts on a cancellation request
WorkerStep(t) ==
    /\ t \in Threads
    /\ \/ pthread_cancel(t)
       \/ use_after_free(t)
       \/ /\ ~CancelNow(t)
          /\ \/ worker_thread_queue_pop(t)
             \/ queue_pop_sem_wait(t)
             \/ queue_pop_lock(t)
             \/ queue_pop_read(t)
             \/ queue_pop_unlock(t)
             \/ queue_pop_post(t)
             \/ worker_thread_popped(t)
             \/ handle_connection(t)
             \/ find_file_lock_mutex(t)
             \/ find_file_lock_unlock(t)
             \/ handle_get(t)
             \/ handle_put(t)
             \/ write_audit_log(t)
             \/ release_file_lock_mutex(t)
             \/ release_file_lock_unlock(t)
             \/ worker_thread_respond(t)
             \/ reader_lock(t)
             \/ reader_unlock(t)
             \/ writer_lock(t)
             \/ writer_unlock(t)
             \/ spurious_wakeup(t)
             \/ nway_priority_rd_lock_mutex(t)
             \/ nway_priority_rd_lock_while(t)
             \/ nway_priority_rd_lock_wake(t)
             \/ nway_priority_rd_lock_sem(t)
             \/ nway_priority_rd_lock_unlock(t)
             \/ nway_priority_rd_unlock_mutex(t)
             \/ nway_priority_rd_unlock_post(t)
             \/ nway_priority_rd_unlock_unlock(t)
             \/ nway_priority_wr_lock_mutex(t)
             \/ nway_priority_wr_lock_while(t)
             \/ nway_priority_wr_lock_wake(t)
             \/ nway_priority_wr_lock_sem(t)
             \/ nway_priority_wr_unlock_post(t)
             \/ nway_priority_wr_unlock_mutex(t)
             \/ nway_priority_wr_unlock_unlock(t)

NextMain ==
    \/ main_accept
    \/ signal_handler
    \/ main_loop_exit
    \/ main_join
    \/ main_rwlock_delete
    \/ main_queue_delete
    \/ queue_push_sem_wait(MainThread)
    \/ queue_push_lock(MainThread)
    \/ queue_push_write(MainThread)
    \/ queue_push_unlock(MainThread)
    \/ queue_push_post(MainThread)
    \/ \E t \in Threads : pthread_cancel(t)
    \/ \E t \in Threads : use_after_free(t)
    \/ \E t \in Threads : ~CancelNow(t) /\ worker_thread_queue_pop(t)
    \/ \E t \in Threads : ~CancelNow(t) /\ queue_pop_sem_wait(t)
    \/ \E t \in Threads : ~CancelNow(t) /\ queue_pop_lock(t)
    \/ \E t \in Threads : ~CancelNow(t) /\ queue_pop_read(t)
    \/ \E t \in Threads : ~CancelNow(t) /\ queue_pop_unlock(t)
    \/ \E t \in Threads : ~CancelNow(t) /\ queue_pop_post(t)
    \/ \E t \in Threads : ~CancelNow(t) /\ worker_thread_popped(t)
    \/ \E t \in Threads : ~CancelNow(t) /\ handle_connection(t)
    \/ \E t \in Threads : ~CancelNow(t) /\ find_file_lock_mutex(t)
    \/ \E t \in Threads : ~CancelNow(t) /\ find_file_lock_unlock(t)
    \/ \E t \in Threads : ~CancelNow(t) /\ handle_get(t)
    \/ \E t \in Threads : ~CancelNow(t) /\ handle_put(t)
    \/ \E t \in Threads : ~CancelNow(t) /\ write_audit_log(t)
    \/ \E t \in Threads : ~CancelNow(t) /\ release_file_lock_mutex(t)
    \/ \E t \in Threads : ~CancelNow(t) /\ release_file_lock_unlock(t)
    \/ \E t \in Threads : ~CancelNow(t) /\ worker_thread_respond(t)
    \/ \E t \in Threads : ~CancelNow(t) /\ reader_lock(t)
    \/ \E t \in Threads : ~CancelNow(t) /\ reader_unlock(t)
    \/ \E t \in Threads : ~CancelNow(t) /\ writer_lock(t)
    \/ \E t \in Threads : ~CancelNow(t) /\ writer_unlock(t)
    \/ \E t \in Threads : ~CancelNow(t) /\ spurious_wakeup(t)
    \/ \E t \in Threads : ~CancelNow(t) /\ nway_priority_rd_lock_mutex(t)
    \/ \E t \in Threads : ~CancelNow(t) /\ nway_priority_rd_lock_while(t)
    \/ \E t \in Threads : ~CancelNow(t) /\ nway_priority_rd_lock_wake(t)
    \/ \E t \in Threads : ~CancelNow(t) /\ nway_priority_rd_lock_sem(t)
    \/ \E t \in Threads : ~CancelNow(t) /\ nway_priority_rd_lock_unlock(t)
    \/ \E t \in Threads : ~CancelNow(t) /\ nway_priority_rd_unlock_mutex(t)
    \/ \E t \in Threads : ~CancelNow(t) /\ nway_priority_rd_unlock_post(t)
    \/ \E t \in Threads : ~CancelNow(t) /\ nway_priority_rd_unlock_unlock(t)
    \/ \E t \in Threads : ~CancelNow(t) /\ nway_priority_wr_lock_mutex(t)
    \/ \E t \in Threads : ~CancelNow(t) /\ nway_priority_wr_lock_while(t)
    \/ \E t \in Threads : ~CancelNow(t) /\ nway_priority_wr_lock_wake(t)
    \/ \E t \in Threads : ~CancelNow(t) /\ nway_priority_wr_lock_sem(t)
    \/ \E t \in Threads : ~CancelNow(t) /\ nway_priority_wr_unlock_post(t)
    \/ \E t \in Threads : ~CancelNow(t) /\ nway_priority_wr_unlock_mutex(t)
    \/ \E t \in Threads : ~CancelNow(t) /\ nway_priority_wr_unlock_unlock(t)

\* every thread that can take a step eventually takes one; the signal may never come
SpecMain ==
    /\ InitMain /\ [][NextMain]_vars
    /\ WF_vars(MainStep)
    /\ \A t \in 1..NumWorkers : WF_vars(WorkerStep(t))

\* ------------------------------------------- handle_put, the bytes of the body
\* conversion of a ssize_t to the size_t parameter of pass_n_bytes
ToSizeT(x) == x % (2 ^ SizeBits)
\* write_n_bytes(fd, buf, n): n bytes are written to fd; the number written
write_n_bytes(n) == n
\* pass_n_bytes(src, dst, n): bytes are copied until n were copied or src is at
\* end of file; the number copied
pass_n_bytes(avail, n) == Min(avail, n)

\* the file as the open calls of handle_put find it, in bytes; NoFileLen if absent
NoFileLen == -1

\* handle_put up to the open: 400 for an invalid Content-Length (-1: no header,
\* -2: not a number); else the file is truncated (200) or created (201)
handle_put_open ==
    /\ put.pc = "call"
    /\ IF put.content_length < 0
       THEN put' = [put EXCEPT !.pc = "returned", !.res = 400]
       ELSE put' = [put EXCEPT !.pc = "opened", !.file = 0,
                               !.res = IF put.file = NoFileLen THEN 201 ELSE 200]
    /\ UNCHANGED <<rwVars, qVars, srvVars, mainVars>>

\* handle_put: nothing to write for Content-Length 0; else the buffered body is
\* written, all body_size bytes of it, and the handler returns if
\* total_wb == content_length
handle_put_write_body ==
    /\ put.pc = "opened"
    /\ IF put.content_length = 0
       THEN put' = [put EXCEPT !.pc = "returned"]
       ELSE LET wb == IF put.body_size > 0 THEN write_n_bytes(put.body_size) ELSE 0 IN
            put' = [put EXCEPT !.total_wb = wb, !.file = @ + wb,
                               !.pc = IF wb = put.content_length THEN "returned" ELSE "pass"]
    /\ UNCHANGED <<rwVars, qVars, srvVars, mainVars>>

\* handle_put: pass_n_bytes(sock, fd, content_length - total_wb)
handle_put_pass ==
    /\ put.pc = "pass"
    /\ LET n == pass_n_bytes(put.sock, ToSizeT(put.content_length - put.total_wb)) IN
       put' = [put EXCEPT !.pc = "returned", !.file = @ + n, !.passed = n]
    /\ UNCHANGED <<rwVars, qVars, srvVars, mainVars>>

\* a PUT request as handle_put receives it: the Content-Length header, the body
\* bytes that arrived with the headers, the bytes the client sends afterwards,
\* and the file before the call
InitPut ==
    /\ \E cl \in -2..MaxContentLength : \E bs \in 0..MaxBodySize :
       \E sk \in 0..MaxSocketBytes : \E f \in {NoFileLen, 0, MaxContentLength + 1} :
          put = [pc |-> "call", content_length |-> cl, body_size |-> bs, sock |-> sk,
                 file |-> f, res |-> 0, total_wb |-> 0, passed |-> 0]
    /\ LocksUnused
    /\ QueueUnused
    /\ ServerUnused
    /\ MainUnused

NextPut ==
    \/ handle_put_open
    \/ handle_put_write_body
    \/ handle_put_pass

SpecPut == InitPut /\ [][NextPut]_vars

\* ------------------------------------------- properties of the whole server
\* who has connection id: the acceptor (accepted, not yet written to the queue),
\* a queue slot, a worker (from the read of queue_pop on), or nobody any more
\* (closed and freed)
AcceptorOwns(id) ==
    /\ qpc[MainThread] \in {"push_sem", "push_lock", "push_write"}
    /\ elem[MainThread] = ReqPtr(id)
QueueOwns(id) == \E i \in 1..QCount : QStored[i] = ReqPtr(id)
WorkerOwns(t, id) ==
    \/ /\ pc[t] = "popping" /\ qpc[t] \in {"pop_unlock", "pop_post", "idle"}
       /\ elem[t] = ReqPtr(id)
    \/ req[t].id = id
Closed(id) == { i \in EvIdx("close") : events[i].id = id }

LockIdle(l) ==
    /\ rw[l].write_lock = 1 /\ rw[l].mutex = NoThread
    /\ rw[l].readers_holding = 0
    /\ rw[l].rd_cond = {} /\ rw[l].wr_cond = {}

\* C22: no lock is destroyed before every worker has been joined, a destroyed
\* lock is idle, and the queue is destroyed after all the locks.
C22_TeardownOrder ==
    /\ main.deleted # {} => main.joined = Threads
    /\ \A l \in main.deleted : LockIdle(l)
    /\ main.queue_deleted => main.deleted = DOMAIN rw

\* C23: once SIGINT or SIGTERM was received, main eventually leaves the accept
\* loop, joins every worker and completes teardown.
C23_ShutdownCompletes ==
    main.signalled ~> (main.pc = "done" /\ main.joined = Threads)

\* live threads that have the write gate of lock l, as a writer or as a member
\* of the cohort of readers
GateHolders(l) ==
    { t \in Threads : lk[t] = l /\
        pc[t] \in {"wr_held", "wr_audit", "call_writer_unlock", "wu_post",
                  "rl_unlock", "rd_held", "rd_audit", "call_reader_unlock",
                  "ru_mutex", "ru_post"} }

\* C24: after a cancelled worker has terminated, no lock's internal mutex is
\* held by it and no write gate stays taken without a live holder.
C24_CancelReleasesLock ==
    \A l \in DOMAIN rw :
        /\ rw[l].mutex # NoThread => pc[rw[l].mutex] # "terminated"
        /\ rw[l].write_lock = 0 => GateHolders(l) # {}

\* ------------------------------------------- further properties of the lock
\* C31: under N_WAY 0 <= readers_passed <= n in every state; a step of
\* reader_lock raises readers_passed by one and only from a value below n,
\* only the step of writer_unlock under the mutex lowers it, and that step
\* always leaves it at 0.
C31_ReadersPassedBounded ==
    /\ [] (\A l \in DOMAIN rw :
             rw[l].priority = "N_WAY" =>
                 /\ 0 <= rw[l].readers_passed
                 /\ rw[l].readers_passed <= rw[l].n)
    /\ [][ \A l \in DOMAIN rw :
             rw[l].priority = "N_WAY" =>
                 /\ rw'[l].readers_passed > rw[l].readers_passed =>
                       /\ rw[l].readers_passed < rw[l].n
                       /\ rw'[l].readers_passed = rw[l].readers_passed + 1
                       /\ \E t \in Threads :
                             lk[t] = l /\ pc[t] = "rl_while" /\ pc'[t] # "rl_while"
                 /\ rw'[l].readers_passed < rw[l].readers_passed =>
                       \E t \in Threads :
                           lk[t] = l /\ pc[t] = "wu_mutex" /\ pc'[t] = "wu_unlock"
                 /\ \A t \in Threads :
                       (lk[t] = l /\ pc[t] = "wu_mutex" /\ pc'[t] = "wu_unlock")
                           => rw'[l].readers_passed = 0
      ]_vars

\* the counter is saturated: more readers than n hold the lock and
\* readers_passed stayed at n
C31_Witness ==
    \E l \in DOMAIN rw :
        /\ rw[l].priority = "N_WAY"
        /\ rw[l].readers_passed = rw[l].n
        /\ rw[l].readers_holding > rw[l].n
        /\ \E t \in Threads : lk[t] = l /\ pc[t] = "rd_held"

\* thread t cannot take a step unless another thread acts first: it waits for
\* the internal mutex, for the write gate, or on a condition variable (a
\* spurious wake-up is not counted on)
Blocked(t) ==
    LET r == rw[lk[t]] IN
    \/ pc[t] \in {"rl_mutex", "wl_mutex", "ru_mutex", "wu_mutex"} /\ r.mutex # NoThread
    \/ pc[t] \in {"rl_sem", "wl_sem"} /\ r.write_lock = 0
    \/ pc[t] \in {"rl_wait", "wl_wait"}
         /\ (t \in r.rd_cond \/ t \in r.wr_cond \/ r.mutex # NoThread)

\* C36: for every policy there is no state in which every thread of a lock is
\* blocked, and whenever a thread is blocked some thread that is inside an
\* operation or a critical section can step (progress never depends on a new
\* call); when a reader is blocked on the write gate with the internal mutex
\* locked, the gate is held by a writer that posts the gate before it needs
\* the mutex.
C36_NoDeadlock ==
    /\ \E t \in Threads : ~Blocked(t)
    /\ (\E t \in Threads : Blocked(t)) =>
          \E h \in Threads :
              ~Blocked(h) /\ pc[h] \notin {"unlocked", "call_reader_lock", "call_writer_lock"}
    /\ \A t \in Threads :
          (pc[t] = "rl_sem" /\ rw[lk[t]].write_lock = 0) =>
              /\ rw[lk[t]].priority # "WRITERS"
              /\ \E h \in Threads :
                    /\ lk[h] = lk[t]
                    /\ pc[h] \in {"wr_held", "call_writer_unlock", "wu_post"}

\* a reader is blocked on the gate with the mutex locked, the other threads
\* wait for the mutex or hold the gate
C36_Witness ==
    \E t, h, o \in Threads :
        /\ t # h /\ t # o /\ h # o
        /\ pc[t] = "rl_sem" /\ rw[lk[t]].write_lock = 0 /\ rw[lk[t]].mutex = t
        /\ pc[h] = "wr_held"
        /\ Blocked(o)

\* C37: under WRITERS a reader that reaches the sem_wait of reader_lock (it saw
\* writers_waiting = 0 and readers_holding = 0 under the mutex) finds the write
\* gate available.
C37_WritersReaderNeverBlocksOnGate ==
    \A t \in Threads :
        (rw[lk[t]].priority = "WRITERS" /\ pc[t] = "rl_sem") =>
            /\ rw[lk[t]].write_lock = 1
            /\ rw[lk[t]].writers_waiting = 0 /\ rw[lk[t]].readers_holding = 0
            /\ rw[lk[t]].mutex = t

\* a first reader is at the gate under WRITERS while a writer that has just
\* arrived waits for the mutex and another thread has just left writer_unlock
C37_Witness ==
    \E t, w \in Threads :
        /\ rw[lk[t]].priority = "WRITERS" /\ pc[t] = "rl_sem"
        /\ pc[w] = "wl_mutex" /\ lk[w] = lk[t]

\* ------------------------------- the N_WAY policy under fair scheduling
InitNway ==
    /\ \E n \in 1..MaxN : rw = [l \in {0} |-> rwlock_new("N_WAY", n)]
    /\ pc = [t \in 1..NumThreads |-> "unlocked"]
    /\ lk = [t \in 1..NumThreads |-> 0]
    /\ passed_since = [t \in 1..NumThreads |-> 0]
    /\ writers_ahead = [t \in 1..NumThreads |-> {}]
    /\ window = [l \in {0} |-> 0]
    /\ MainUnused
    /\ PutUnused
    /\ QueueUnused
    /\ ServerUnused

\* the steps of thread t that the scheduler owes it: the steps of the lock
\* operation it is in and the end of its critical section; neither a new call
\* nor a spurious wake-up
NwayStep(t) ==
    \/ client_critical(t)
    \/ reader_lock(t)
    \/ reader_unlock(t)
    \/ writer_lock(t)
    \/ writer_unlock(t)
    \/ nway_priority_rd_lock_mutex(t)
    \/ nway_priority_rd_lock_while(t)
    \/ nway_priority_rd_lock_wake(t)
    \/ nway_priority_rd_lock_sem(t)
    \/ nway_priority_rd_lock_unlock(t)
    \/ nway_priority_rd_unlock_mutex(t)
    \/ nway_priority_rd_unlock_post(t)
    \/ nway_priority_rd_unlock_unlock(t)
    \/ nway_priority_wr_lock_mutex(t)
    \/ nway_priority_wr_lock_while(t)
    \/ nway_priority_wr_lock_wake(t)
    \/ nway_priority_wr_lock_sem(t)
    \/ nway_priority_wr_unlock_post(t)
    \/ nway_priority_wr_unlock_mutex(t)
    \/ nway_priority_wr_unlock_unlock(t)

NextNway ==
    \/ \E t \in Threads : client_call(t)
    \/ \E t \in Threads : client_critical(t)
    \/ \E t \in Threads : reader_lock(t)
    \/ \E t \in Threads : reader_unlock(t)
    \/ \E t \in Threads : writer_lock(t)
    \/ \E t \in Threads : writer_unlock(t)
    \/ \E t \in Threads : spurious_wakeup(t)
    \/ \E t \in Threads : nway_priority_rd_lock_mutex(t)
    \/ \E t \in Threads : nway_priority_rd_lock_while(t)
    \/ \E t \in Threads : nway_priority_rd_lock_wake(t)
    \/ \E t \in Threads : nway_priority_rd_lock_sem(t)
    \/ \E t \in Threads : nway_priority_rd_lock_unlock(t)
    \/ \E t \in Threads : nway_priority_rd_unlock_mutex(t)
    \/ \E t \in Threads : nway_priority_rd_unlock_post(t)
    \/ \E t \in Threads : nway_priority_rd_unlock_unlock(t)
    \/ \E t \in Threads : nway_priority_wr_lock_mutex(t)
    \/ \E t \in Threads : nway_priority_wr_lock_while(t)
    \/ \E t \in Threads : nway_priority_wr_lock_wake(t)
    \/ \E t \in Threads : nway_priority_wr_lock_sem(t)
    \/ \E t \in Threads : nway_priority_wr_unlock_post(t)
    \/ \E t \in Threads : nway_priority_wr_unlock_mutex(t)
    \/ \E t \in Threads : nway_priority_wr_unlock_unlock(t)

\* every thread is scheduled fairly (strongly: a thread that can take the mutex
\* or the gate again and again eventually takes it)
SpecNway ==
    InitNway /\ [][NextNway]_vars /\ \A t \in 1..NumThreads : SF_vars(NwayStep(t))

\* thread t is inside writer_lock
InWriterLock(t) ==
    pc[t] \in {"call_writer_lock", "wl_mutex", "wl_while", "wl_wait", "wl_sem"}

\* C38: under N_WAY and fair scheduling every writer_lock call eventually
\* returns.
C38_WriterEventuallyAcquires ==
    \A t \in 1..NumThreads : InWriterLock(t) ~> (pc[t] = "wr_held")

\* ------------------------------------------- the queue under fair scheduling
\* the steps of thread t that the scheduler owes it; producers keep pushing
\* (up to MaxItems elements each) and consumers keep popping
QStep(t) ==
    \/ producer_call(t)
    \/ queue_push_sem_wait(t)
    \/ queue_push_lock(t)
    \/ queue_push_write(t)
    \/ queue_push_unlock(t)
    \/ queue_push_post(t)
    \/ consumer_call(t)
    \/ queue_pop_sem_wait(t)
    \/ queue_pop_lock(t)
    \/ queue_pop_read(t)
    \/ queue_pop_unlock(t)
    \/ queue_pop_post(t)

SpecQFair ==
    InitQ /\ [][NextQ]_vars /\ \A t \in Producers \cup Consumers : SF_vars(QStep(t))

\* threads that have passed their sem_wait and not yet done their sem_post
BetweenWaitAndPost ==
    { t \in DOMAIN qpc :
        qpc[t] \in {"push_lock", "push_write", "push_unlock", "push_post",
                   "pop_lock", "pop_read", "pop_unlock", "pop_post"} }
\* every producer has pushed all its elements and every element was popped
AllConsumed ==
    /\ \A p \in Producers : sent[p] = MaxItems /\ qpc[p] = "idle"
    /\ Len(popped) = NumProducers * MaxItems

HasEntry(t) == InLockOp(t) \/ pc[t] \in {"ffl_unlock", "unlocked"}

\* C32: the release that brings users to 0 frees the slot and keeps its lock; a
\* find_file_lock that claims a free slot sets the caller's URI and users = 1,
\* keeps the lock of the slot and returns that slot.
C32_SlotReuse ==
    [][ \A i \in DOMAIN file_locks :
          /\ (file_locks[i].users = 1 /\ file_locks'[i].users = 0) =>
                /\ file_locks'[i].filename = NullName
                /\ rw'[i] = rw[i]
          /\ (file_locks[i].filename = NullName /\ file_locks'[i].filename # NullName) =>
                /\ file_locks'[i].users = 1
                /\ rw'[i] = rw[i]
                /\ \E t \in Threads :
                      /\ pc[t] = "ffl_mutex" /\ pc'[t] = "ffl_unlock"
                      /\ lk'[t] = i /\ file_locks'[i].filename = req[t].uri
      ]_vars

\* a slot that served one URI, was freed, and is now claimed for a different
\* URI with users = 1
C32_Witness ==
    \E i \in DOMAIN file_locks : \E e \in EvIdx("fs") :
        /\ events[e].slot = i
        /\ file_locks[i].filename \notin {NullName, events[e].uri}
        /\ file_locks[i].users = 1

\* C33: a worker's entry holds the worker's URI for as long as the worker has
\* it, so workers on different URIs have different entries and different locks,
\* and a worker blocked on a gate is blocked by holders on its own URI only.
C33_DistinctUrisDistinctLocks ==
    /\ \A t \in Threads : HasEntry(t) => file_locks[lk[t]].filename = req[t].uri
    /\ \A t1, t2 \in Threads :
          (HasEntry(t1) /\ HasEntry(t2) /\ req[t1].uri # req[t2].uri) => lk[t1] # lk[t2]
    /\ \A t \in Threads :
          (pc[t] \in {"rl_sem", "wl_sem"} /\ rw[lk[t]].write_lock = 0)
              => \A h \in GateHolders(lk[t]) : req[h].uri = req[t].uri

\* a PUT holds the lock of its URI while a request on another URI holds its own
C33_Witness ==
    \E t1, t2 \in Threads :
        /\ pc[t1] = "wr_held" /\ pc[t2] \in {"rd_held", "wr_held"}
        /\ req[t1].uri # req[t2].uri /\ lk[t1] # lk[t2]

\* C34: a worker in its handler or at the audit write holds the lock of its
\* entry, in reader mode for GET and in writer mode for PUT; every file access
\* and audit line is made by such a worker; a worker calls release_file_lock
\* only when it is outside the lock.
C34_HandlerUnderLock ==
    /\ [] (\A t \in Threads :
             /\ pc[t] \in {"rd_held", "rd_audit"} =>
                   /\ req[t].method = "GET"
                   /\ file_locks[lk[t]].filename = req[t].uri
                   /\ rw[lk[t]].write_lock = 0 /\ rw[lk[t]].readers_holding >= 1
                   /\ \A w \in Threads :
                         lk[w] = lk[t] => pc[w] \notin {"wr_held", "wr_audit"}
             /\ pc[t] \in {"wr_held", "wr_audit"} =>
                   /\ req[t].method = "PUT"
                   /\ file_locks[lk[t]].filename = req[t].uri
                   /\ rw[lk[t]].write_lock = 0 /\ rw[lk[t]].readers_holding = 0
                   /\ \A w \in Threads :
                         (w # t /\ lk[w] = lk[t]) => pc[w] \notin {"wr_held", "wr_audit"})
    /\ [][ /\ (Len(events') > Len(events) /\ events'[Len(events) + 1].kind \in {"fs", "audit"}) =>
                \E t \in Threads :
                    /\ req[t].id = events'[Len(events) + 1].id
                    /\ lk[t] = events'[Len(events) + 1].slot
                    /\ pc[t] \in {"rd_held", "rd_audit", "wr_held", "wr_audit"}
           /\ \A t \in Threads :
                (pc[t] = "unlocked" /\ pc'[t] = "rfl_unlock") =>
                    /\ t \notin GateHolders(lk[t])
                    /\ (file_locks[lk[t]].users = 1 => LockIdle(lk[t]))
      ]_vars

\* a worker has run its handler and written its audit line, has released the
\* lock and still has its entry
C34_Witness ==
    \E t \in Threads : \E a \in EvIdx("audit") :
        /\ pc[t] = "unlocked" /\ events[a].id = req[t].id
        /\ file_locks[lk[t]].users >= 1

\* C35: a PUT that returns 200 or 201 leaves at most Content-Length bytes in
\* the file, exactly Content-Length bytes when the client sent that many; the
\* count handed to pass_n_bytes is never negative and no more than
\* Content-Length minus the buffered bytes are taken from the socket.
C35_PutWritesContentLength ==
    /\ put.pc = "pass" => put.content_length - put.total_wb >= 0
    /\ (put.pc \in {"pass", "returned"} /\ put.res \in {200, 201}) =>
          /\ put.file <= put.content_length
          /\ put.passed <= put.content_length - put.total_wb
    /\ (put.pc = "returned" /\ put.res \in {200, 201}
          /\ put.body_size + put.sock >= put.content_length) =>
          put.file = put.content_length

\* --- main, the start of the server -------------------------------------------
\* what a slot of the file_locks array, an automatic array of main, may hold
\* before main has written it
GarbageNames == {NullName, "GARBAGE"} \cup URIs

\* the slots main has initialised: every one once the loop is over, the ones
\* below the loop index before
Initialised(i) == main.pc \notin {"create", "init_slot"} \/ i < main.i

\* main, the loop: pthread_create(&threads_arr[i], NULL, worker_thread, queue)
main_pthread_create ==
    /\ main.pc = "create"
    /\ pc' = [pc EXCEPT ![main.i + 1] = "pop"]
    /\ main' = [main EXCEPT !.pc = "init_slot"]
    /\ UNCHANGED <<rw, lk, passed_since, writers_ahead, window, qVars, srvVars,
                   next_id, events, putVars>>

\* main, the loop: file_locks[i].lock = rwlock_new(N_WAY, 1), filename = NULL,
\* users = 0, and i++
main_file_lock_init ==
    /\ main.pc = "init_slot"
    /\ rw' = [rw EXCEPT ![main.i] = rwlock_new("N_WAY", 1)]
    /\ file_locks' = [file_locks EXCEPT ![main.i] = [filename |-> NullName, users |-> 0]]
    /\ main' = IF main.i + 1 < Cardinality(DOMAIN file_locks)
               THEN [main EXCEPT !.pc = "create", !.i = @ + 1]
               ELSE [main EXCEPT !.pc = "accept", !.i = 0]
    /\ UNCHANGED <<pc, lk, passed_since, writers_ahead, window, qVars, file_locks_mutex,
                   req, response, files, next_id, events, putVars>>

\* main after queue_new(threads), before the loop that creates the workers
InitBoot ==
    /\ \E T \in 1..NumWorkers : \E g \in GarbageNames : \E u \in 0..1 :
          /\ rw = [l \in registry_slots(T) |->
                     [rwlock_new("N_WAY", 1) EXCEPT !.priority = BadPriority]]
          /\ file_locks = [i \in registry_slots(T) |-> [filename |-> g, users |-> u]]
          /\ pc = [t \in 1..T |-> "not_created"]
          /\ lk = [t \in 1..T |-> 0]
          /\ passed_since = [t \in 1..T |-> 0]
          /\ writers_ahead = [t \in 1..T |-> {}]
          /\ req = [t \in 1..T |-> NoRequest]
          /\ response = [t \in 1..T |-> RESPONSE_UNSENT(0)]
          /\ q = queue_new(T)
          /\ qpc = [t \in (1..T) \cup {MainThread} |-> "idle"]
          /\ elem = [t \in (1..T) \cup {MainThread} |-> Uninit]
    /\ sent = << >>
    /\ pushed = << >>
    /\ popped = << >>
    /\ window = << >>
    /\ PutUnused
    /\ file_locks_mutex = NoThread
    /\ files = [u \in URIs |-> NoFile]
    /\ next_id = 0
    /\ events = << >>
    /\ main = [pc |-> "create", running |-> TRUE, sock_open |-> TRUE, signalled |-> FALSE,
               cancel |-> {}, i |-> 0, joined |-> {}, deleted |-> {},
               queue_deleted |-> FALSE, conns |-> << >>]

\* the start of the server up to the workers' first calls of find_file_lock
NextBoot ==
    \/ main_pthread_create
    \/ main_file_lock_init
    \/ main_accept
    \/ queue_push_sem_wait(MainThread)
    \/ queue_push_lock(MainThread)
    \/ queue_push_write(MainThread)
    \/ queue_push_unlock(MainThread)
    \/ queue_push_post(MainThread)
    \/ \E t \in Threads : worker_thread_queue_pop(t)
    \/ \E t \in Threads : queue_pop_sem_wait(t)
    \/ \E t \in Threads : queue_pop_lock(t)
    \/ \E t \in Threads : queue_pop_read(t)
    \/ \E t \in Threads : queue_pop_unlock(t)
    \/ \E t \in Threads : queue_pop_post(t)
    \/ \E t \in Threads : worker_thread_popped(t)
    \/ \E t \in Threads : handle_connection(t)
    \/ \E t \in Threads : find_file_lock_mutex(t)
    \/ \E t \in Threads : find_file_lock_unlock(t)

SpecBoot == InitBoot /\ [][NextBoot]_vars

\* C40: while main is in the loop that creates the workers, every worker is not
\* yet created, about to call queue_pop or blocked in its sem_wait on the empty
\* queue, and nothing has been pushed; the registry is written by main alone
\* until every slot is initialised, and a worker runs the scan of
\* find_file_lock only then.
C40_NoSlotAccessBeforeInit ==
    /\ [](main.pc \in {"create", "init_slot"} =>
            /\ pushed = << >> /\ q.rd_sem = 0
            /\ \A t \in Threads :
                  \/ pc[t] \in {"not_created", "pop"}
                  \/ pc[t] = "popping" /\ qpc[t] = "pop_sem")
    /\ [](\A t \in Threads :
            pc[t] \notin {"not_created", "pop", "popping", "handle", "ffl_mutex"} =>
                \A i \in DOMAIN file_locks : Initialised(i))
    /\ [][ /\ (file_locks' # file_locks \/ rw' # rw) =>
                 \/ main.pc = "init_slot" /\ pc' = pc
                 \/ \A i \in DOMAIN file_locks : Initialised(i)
           /\ \A t \in Threads :
                 (pc[t] = "ffl_mutex" /\ pc'[t] # "ffl_mutex") =>
                    \A i \in DOMAIN file_locks : Initialised(i)
       ]_vars

\* a worker was created and is blocked in queue_pop while its own slot is not
\* initialised yet
C40_Witness ==
    \E t \in Threads :
        /\ pc[t] = "popping" /\ qpc[t] = "pop_sem"
        /\ main.pc = "init_slot" /\ main.i = t - 1
        /\ ~Initialised(t - 1)
====
